---- MODULE Spec2Model ----
(***************************************************************************)
(* A model of rest_framework/fields.py: the field contract (construction,  *)
(* binding, run_validation, the validator pipeline, fail), the attribute   *)
(* path resolver (get_attribute, set_value) and the list field.            *)
(*                                                                         *)
(* Python values are modelled by their repr: "None", "''", "'abc'", "1",   *)
(* "True"; the class 'empty' is the string "empty".  An outcome of a call  *)
(* is a record [kind, value, messages]: kind "return" carries the value,   *)
(* every other kind is the class of the exception that was raised.         *)
(***************************************************************************)
EXTENDS Integers, Sequences, FiniteSets, TLC

VARIABLES
    field,            \* the field instance, or NoField before construction
    last,             \* the most recent call: its name, arguments, outcome
    calls,            \* the hooks the most recent call invoked, in order
    serializer_field, \* validator object -> the field injected into it
    instance,         \* the object graph get_attribute reads
    container         \* the dictionary set_value writes

vars == <<field, last, calls, serializer_field, instance, container>>

-----------------------------------------------------------------------------
(* Python values *)

empty == "empty"
NoneV == "None"

Return(v) == [kind |-> "return", value |-> v, messages |-> <<>>]
Raise(exc, msgs) == [kind |-> exc, value |-> "-", messages |-> msgs]

StrTexts == {"", "abc", "1", "01", "2", "3", "t", "maybe", "True"}
Quote(s) == "'" \o s \o "'"
IsStr(v) == \E s \in StrTexts : Quote(s) = v

\* six.text_type(v): a string is itself, anything else is printed
text_type(v) == IF IsStr(v) THEN CHOOSE s \in StrTexts : Quote(s) = v ELSE v

IntRange == 0..3
\* the spellings int() reads as n: "1" and "01" are both 1
Spellings(n) == {ToString(n), "0" \o ToString(n)}
IsIntText(t) == \E n \in IntRange : t \in Spellings(n)
int(t) == CHOOSE n \in IntRange : t \in Spellings(n)

\* Python's == on the modelled values: 1 == True == 1.0 and 0 == False == 0.0
Num(v) == CASE v \in {"1", "True", "1.0"} -> "one"
            [] v \in {"0", "False", "0.0"} -> "zero"
            [] OTHER -> "nan"
PyEq(a, b) == a = b \/ (Num(a) # "nan" /\ Num(a) = Num(b))
PyIn(v, S) == \E t \in S : PyEq(v, t)

Get(kwargs, name, dflt) == IF name \in DOMAIN kwargs THEN kwargs[name] ELSE dflt

RECURSIVE Join(_)
Join(parts) == IF parts = <<>> THEN "" ELSE Head(parts) \o Join(Tail(parts))

\* str.format: a part "{name}" is replaced by the text of kwargs[name]
Placeholders ==
    ("{input}" :> "input") @@ ("{max_value}" :> "max_value")
    @@ ("{min_value}" :> "min_value") @@ ("{input_type}" :> "input_type")
    @@ ("{max_digits}" :> "max_digits") @@ ("{max_decimal_places}" :> "max_decimal_places")
    @@ ("{max_whole_digits}" :> "max_whole_digits") @@ ("{format}" :> "format")
\* the names a template interpolates
FormatKeys(template) ==
    {Placeholders[template[i]] :
        i \in {j \in DOMAIN template : template[j] \in DOMAIN Placeholders}}
Format(template, kwargs) ==
    Join([i \in DOMAIN template |->
            IF template[i] \in DOMAIN Placeholders
            THEN text_type(kwargs[Placeholders[template[i]]])
            ELSE template[i]])

-----------------------------------------------------------------------------
(* Error messages (a backquote of the source is written ' here) *)

NOT_READ_ONLY_WRITE_ONLY == "May not set both 'read_only' and 'write_only'"
NOT_READ_ONLY_REQUIRED == "May not set both 'read_only' and 'required'"
NOT_READ_ONLY_DEFAULT == "May not set both 'read_only' and 'default'"
NOT_REQUIRED_DEFAULT == "May not set both 'required' and 'default'"
USE_READONLYFIELD == "Field(read_only=True) should be ReadOnlyField"
MISSING_ERROR_MESSAGE(class_name, key) ==
    "ValidationError raised by '" \o class_name \o "', but error key '" \o key
    \o "' does not exist in the 'error_messages' dictionary."

Classes == {"Field", "BooleanField", "NullBooleanField", "CharField",
            "IntegerField", "ReadOnlyField"}

\* cls.__mro__, most specific first (object carries no messages)
Mro(cls) ==
    IF cls = "Field" THEN <<"Field">>
    ELSE IF cls = "MultipleChoiceField" THEN <<cls, "ChoiceField", "Field">>
    ELSE IF cls = "EmailField" THEN <<cls, "CharField", "Field">>
    ELSE <<cls, "Field">>

\* the class attribute default_error_messages, as getattr(cls, ...) finds it
default_error_messages(cls) ==
    CASE cls \in {"BooleanField", "NullBooleanField"} ->
            [invalid |-> <<"'", "{input}", "' is not a valid boolean.">>]
      [] cls = "CharField" ->
            [blank |-> <<"This field may not be blank.">>]
      [] cls = "EmailField" ->
            [invalid |-> <<"Enter a valid email address.">>]
      [] cls = "IntegerField" ->
            [invalid |-> <<"A valid integer is required.">>,
             max_value |-> <<"Ensure this value is less than or equal to ", "{max_value}", ".">>,
             min_value |-> <<"Ensure this value is greater than or equal to ", "{min_value}", ".">>]
      [] cls = "ListField" ->
            [not_a_list |-> <<"Expected a list of items but got type '", "{input_type}", "'">>]
      [] cls = "DateTimeField" ->
            [invalid |-> <<"Datetime has wrong format. Use one of these formats instead: ",
                           "{format}">>,
             date |-> <<"Expected a datetime but got a date.">>]
      [] cls = "DateField" ->
            [invalid |-> <<"Date has wrong format. Use one of these formats instead: ",
                           "{format}">>,
             datetime |-> <<"Expected a date but got a datetime.">>]
      [] cls = "ChoiceField" ->
            [invalid_choice |-> <<"'", "{input}", "' is not a valid choice.">>]
      [] cls = "MultipleChoiceField" ->
            [invalid_choice |-> <<"'", "{input}", "' is not a valid choice.">>,
             not_a_list |-> <<"Expected a list of items but got type '", "{input_type}", "'">>]
      [] cls = "DecimalField" ->
            [invalid |-> <<"A valid number is required.">>,
             max_value |-> <<"Ensure this value is less than or equal to ", "{max_value}", ".">>,
             min_value |-> <<"Ensure this value is greater than or equal to ", "{min_value}", ".">>,
             max_digits |-> <<"Ensure that there are no more than ", "{max_digits}",
                              " digits in total.">>,
             max_decimal_places |-> <<"Ensure that there are no more than ",
                                      "{max_decimal_places}", " decimal places.">>,
             max_whole_digits |-> <<"Ensure that there are no more than ", "{max_whole_digits}",
                                    " digits before the decimal point.">>]
      [] OTHER ->
            [required |-> <<"This field is required.">>,
             null |-> <<"This field may not be null.">>]

\* dict.update: the entries of new win
Update(old, new) == new @@ old

RECURSIVE MergeMessages(_, _)
MergeMessages(classes, messages) ==
    IF classes = <<>> THEN messages
    ELSE MergeMessages(Tail(classes),
                       Update(messages, default_error_messages(Head(classes))))

Reversed(s) == [i \in DOMAIN s |-> s[Len(s) + 1 - i]]

-----------------------------------------------------------------------------
(* Validators: the callables a field is given.  A validator object is a    *)
(* record [cls, limit, message]; calling it either passes or raises a      *)
(* ValidationError with one or more messages.                              *)

Validator(cls) == [cls |-> cls, limit |-> 0, message |-> ""]
MaxValueValidator(max_value, message) ==
    [cls |-> "MaxValueValidator", limit |-> max_value, message |-> message]
MinValueValidator(min_value, message) ==
    [cls |-> "MinValueValidator", limit |-> min_value, message |-> message]

\* getattr(validator, 'requires_context', False)
requires_context(validator) == validator.cls = "ctx"

\* validator(value): the messages of the ValidationError it raises, <<>> when
\* it passes.  "ctx" reads the field injected into it.
ValidatorMessages(validator, value, injected) ==
    CASE validator.cls = "ok" -> <<>>
      [] validator.cls = "a" -> <<"a">>
      [] validator.cls = "bc" -> <<"b", "c">>
      [] validator.cls = "ctx" -> IF value = "1" THEN <<"taken by " \o injected>> ELSE <<>>
      [] validator.cls = "MaxValueValidator" ->
            IF IsIntText(value) /\ int(value) > validator.limit
            THEN <<validator.message>> ELSE <<>>
      [] validator.cls = "MinValueValidator" ->
            IF IsIntText(value) /\ int(value) < validator.limit
            THEN <<validator.message>> ELSE <<>>

-----------------------------------------------------------------------------
(* Field.__init__ and the __init__ of its subclasses *)

NoField == [cls |-> "NoField"]

\* DeriveRequired without its test 'if required is None'
DeriveRequired_always(kwargs, default, read_only) == default = empty /\ ~read_only

\* If 'required' is unset, then use True unless a default is provided.
DeriveRequired(kwargs, default, read_only) ==
    IF "required" \in DOMAIN kwargs
    THEN kwargs["required"]
    ELSE default = empty /\ ~read_only

\* FailedAssertion without the assertion on 'required' and 'default'
FailedAssertion_no_required_default(cls, read_only, write_only, required, default) ==
    IF read_only /\ write_only THEN NOT_READ_ONLY_WRITE_ONLY
    ELSE IF read_only /\ required THEN NOT_READ_ONLY_REQUIRED
    ELSE IF read_only /\ default # empty THEN NOT_READ_ONLY_DEFAULT
    ELSE IF read_only /\ cls = "Field" THEN USE_READONLYFIELD
    ELSE ""

\* Some combinations of keyword arguments do not make sense: the message of
\* the first assertion that fails, "" when all hold
FailedAssertion(cls, read_only, write_only, required, default) ==
    IF read_only /\ write_only THEN NOT_READ_ONLY_WRITE_ONLY
    ELSE IF read_only /\ required THEN NOT_READ_ONLY_REQUIRED
    ELSE IF read_only /\ default # empty THEN NOT_READ_ONLY_DEFAULT
    ELSE IF required /\ default # empty THEN NOT_REQUIRED_DEFAULT
    ELSE IF read_only /\ cls = "Field" THEN USE_READONLYFIELD
    ELSE ""

\* Field.__init__(self, **kwargs) for an instance of class cls: the outcome,
\* and the instance when construction succeeded
Field__init__(cls, kwargs) ==
    LET read_only == Get(kwargs, "read_only", FALSE)
        write_only == Get(kwargs, "write_only", FALSE)
        default == Get(kwargs, "default", empty)
        validators == Get(kwargs, "validators", <<>>)
        required == DeriveRequired(kwargs, default, read_only)
        failed == FailedAssertion(cls, read_only, write_only, required, default)
        messages == Update(MergeMessages(Reversed(Mro(cls)), <<>>),
                           Get(kwargs, "error_messages", <<>>))
        self == [cls |-> cls,
                 read_only |-> read_only,
                 write_only |-> write_only,
                 required |-> required,
                 default |-> default,
                 source |-> Get(kwargs, "source", NoneV),
                 label |-> Get(kwargs, "label", NoneV),
                 validators |-> validators,
                 allow_null |-> Get(kwargs, "allow_null", FALSE),
                 field_name |-> NoneV,
                 parent |-> NoneV,
                 error_messages |-> messages]
    IN  IF failed # ""
        THEN [out |-> Raise("AssertionError", <<failed>>), self |-> NoField]
        ELSE [out |-> Return(NoneV), self |-> self]

Without(kwargs, names) == [k \in DOMAIN kwargs \ names |-> kwargs[k]]

BooleanField__init__(kwargs) ==
    IF "allow_null" \in DOMAIN kwargs
    THEN [out |-> Raise("AssertionError",
                        <<"'allow_null' is not a valid option. Use 'NullBooleanField' instead.">>),
          self |-> NoField]
    ELSE Field__init__("BooleanField", kwargs)

NullBooleanField__init__(kwargs) ==
    IF "allow_null" \in DOMAIN kwargs
    THEN [out |-> Raise("AssertionError", <<"'allow_null' is not a valid option.">>),
          self |-> NoField]
    ELSE Field__init__("NullBooleanField", Update(kwargs, [allow_null |-> TRUE]))

CharField__init__(kwargs) ==
    LET r == Field__init__("CharField", Without(kwargs, {"allow_blank", "max_length", "min_length"}))
    IN  IF r.out.kind # "return" THEN r
        ELSE [r EXCEPT !.self = Update(@, [allow_blank |-> Get(kwargs, "allow_blank", FALSE),
                                           max_length |-> Get(kwargs, "max_length", NoneV),
                                           min_length |-> Get(kwargs, "min_length", NoneV)])]

IntegerField__init__(kwargs) ==
    LET r == Field__init__("IntegerField", Without(kwargs, {"max_value", "min_value"}))
        withMax(vs) ==
            IF "max_value" \in DOMAIN kwargs
            THEN Append(vs, MaxValueValidator(kwargs["max_value"],
                        Format(r.self.error_messages["max_value"],
                               [max_value |-> ToString(kwargs["max_value"])])))
            ELSE vs
        withMin(vs) ==
            IF "min_value" \in DOMAIN kwargs
            THEN Append(vs, MinValueValidator(kwargs["min_value"],
                        Format(r.self.error_messages["min_value"],
                               [min_value |-> ToString(kwargs["min_value"])])))
            ELSE vs
    IN  IF r.out.kind # "return" THEN r
        ELSE [r EXCEPT !.self.validators = withMin(withMax(@))]

ReadOnlyField__init__(kwargs) ==
    Field__init__("ReadOnlyField", Update(kwargs, [read_only |-> TRUE]))

\* cls(**kwargs)
Construct(cls, kwargs) ==
    CASE cls = "BooleanField" -> BooleanField__init__(kwargs)
      [] cls = "NullBooleanField" -> NullBooleanField__init__(kwargs)
      [] cls = "CharField" -> CharField__init__(kwargs)
      [] cls = "IntegerField" -> IntegerField__init__(kwargs)
      [] cls = "ReadOnlyField" -> ReadOnlyField__init__(kwargs)
      [] OTHER -> Field__init__(cls, kwargs)

-----------------------------------------------------------------------------
(* The objects a field can be bound to.  A serializer has a parent (None   *)
(* at the top level) and may carry the attribute 'partial'.                *)

Parents ==
    [top_full       |-> [parent |-> NoneV, has_partial |-> TRUE, partial |-> FALSE],
     top_partial    |-> [parent |-> NoneV, has_partial |-> TRUE, partial |-> TRUE],
     in_partial     |-> [parent |-> "top_partial", has_partial |-> TRUE, partial |-> FALSE],
     in_full        |-> [parent |-> "top_full", has_partial |-> TRUE, partial |-> TRUE],
     top_plain      |-> [parent |-> NoneV, has_partial |-> FALSE, partial |-> FALSE]]

\* obj.parent, for the field ("field"), the child of a list field ("child")
\* and the objects of Parents
ParentOf(obj, fld) ==
    CASE obj = "field" -> fld.parent
      [] obj = "child" -> fld.child.parent
      [] OTHER -> Parents[obj].parent

\* the property Field.root
RECURSIVE root(_, _)
root(obj, fld) ==
    IF ParentOf(obj, fld) # NoneV THEN root(ParentOf(obj, fld), fld) ELSE obj

\* root_partial reading the parent instead of the root
parent_partial(obj, fld) ==
    LET r == ParentOf(obj, fld)
    IN  r \in DOMAIN Parents /\ Parents[r].has_partial /\ Parents[r].partial

\* getattr(self.root, 'partial', False)
root_partial(obj, fld) ==
    LET r == root(obj, fld)
    IN  r \in DOMAIN Parents /\ Parents[r].has_partial /\ Parents[r].partial

\* the steps of the source paths used, and the longest path
StepNames == {"a", "b"}
MaxPath == 2
Paths == UNION {[1..n -> StepNames] : n \in 1..MaxPath}

\* '.'.join(path)
RECURSIVE Dotted(_)
Dotted(path) ==
    IF Len(path) = 1 THEN Head(path) ELSE (Head(path) \o ".") \o Dotted(Tail(path))

\* str.split('.'): the steps whose join is source; a name without a dot is
\* its own single step
Split(source) ==
    IF \E path \in Paths : Dotted(path) = source
    THEN CHOOSE path \in Paths : Dotted(path) = source
    ELSE <<source>>

\* str.replace('_', ' ').capitalize() on the names used
Capitalize(name) ==
    CASE name = "age" -> "Age"
      [] name = "first_name" -> "First name"
      [] name = "score" -> "Score"
      [] name = "" -> ""
      [] OTHER -> name

\* Field.bind(self, field_name, parent)
bind(self, field_name, parent) ==
    IF self.source = field_name
    THEN [out |-> Raise("AssertionError", <<"It is redundant to specify 'source'">>),
          self |-> self]
    ELSE LET label == IF self.label = NoneV THEN Capitalize(field_name) ELSE self.label
             source == IF self.source = NoneV THEN field_name ELSE self.source
             source_attrs == IF source = "*" THEN <<>> ELSE Split(source)
         IN  [out |-> Return(NoneV),
              self |-> Update(self, [field_name |-> field_name, parent |-> parent,
                                     label |-> label, source |-> source,
                                     source_attrs |-> source_attrs])]

-----------------------------------------------------------------------------
(* fail, get_default, to_internal_value *)

\* fail reporting an unregistered key as a validation error
fail_unregistered_as_validation(self, key, kwargs) ==
    IF key \notin DOMAIN self.error_messages
    THEN Raise("ValidationError", <<key>>)
    ELSE IF ~(FormatKeys(self.error_messages[key]) \subseteq DOMAIN kwargs)
    THEN Raise("KeyError", <<>>)
    ELSE Raise("ValidationError", <<Format(self.error_messages[key], kwargs)>>)

\* Field.fail(self, key, **kwargs)
fail(self, key, kwargs) ==
    IF key \notin DOMAIN self.error_messages
    THEN Raise("AssertionError", <<MISSING_ERROR_MESSAGE(self.cls, key)>>)
    ELSE IF ~(FormatKeys(self.error_messages[key]) \subseteq DOMAIN kwargs)
    THEN Raise("KeyError", <<>>)
    ELSE Raise("ValidationError", <<Format(self.error_messages[key], kwargs)>>)

\* The callables used as defaults, as the inspect module describes them:
\* isfunction, ismethod, and the args and defaults of getargspec.  A class and
\* a built-in are callable but neither a function nor a method.
Callables ==
    [func_produce      |-> [function |-> TRUE, method |-> FALSE, args |-> 0, defaults |-> 0,
                            result |-> "'produced'"],
     func_needs_arg    |-> [function |-> TRUE, method |-> FALSE, args |-> 1, defaults |-> 0,
                            result |-> "-"],
     func_optional_arg |-> [function |-> TRUE, method |-> FALSE, args |-> 1, defaults |-> 1,
                            result |-> "'produced'"],
     method_produce    |-> [function |-> FALSE, method |-> TRUE, args |-> 1, defaults |-> 0,
                            result |-> "'produced'"],
     class_dict        |-> [function |-> FALSE, method |-> FALSE, args |-> 0, defaults |-> 0,
                            result |-> "{}"],
     builtin_now       |-> [function |-> FALSE, method |-> FALSE, args |-> 0, defaults |-> 0,
                            result |-> "'now'"]]

\* is_simple_callable(obj): True if the object is a function or a method
\* whose arguments all have defaults
is_simple_callable(obj) ==
    /\ obj \in DOMAIN Callables
    /\ LET c == Callables[obj]
           len_args == IF c.function THEN c.args ELSE c.args - 1
       IN  (c.function \/ c.method) /\ len_args <= c.defaults

\* Field.get_default(self): the outcome, and the call of self.default() made
get_default_with_calls(self) ==
    IF self.default = empty
    THEN [out |-> Raise("SkipField", <<>>), calls |-> <<>>]
    ELSE IF is_simple_callable(self.default)
    THEN [out |-> Return(Callables[self.default].result), calls |-> <<"default()">>]
    ELSE [out |-> Return(self.default), calls |-> <<>>]

\* the outcome of Field.get_default(self)
get_default(self) == get_default_with_calls(self).out

TRUE_VALUES == {"'t'", "'T'", "'true'", "'True'", "'TRUE'", "'1'", "1", "True"}
FALSE_VALUES == {"'f'", "'F'", "'false'", "'False'", "'FALSE'", "'0'", "0", "0.0", "False"}
NULL_VALUES == {"'n'", "'N'", "'null'", "'Null'", "'NULL'", "''", "None"}

\* the values that have no hash: testing one with 'in' against a set raises
\* TypeError before any element is compared
Unhashable == {"[]", "{}"}
Unhashed == Raise("TypeError", <<"unhashable type">>)

\* to_internal_value(self, data) of the class of self
to_internal_value(self, data) ==
    CASE self.cls = "BooleanField" ->
            IF data \in Unhashable THEN Unhashed
            ELSE IF PyIn(data, TRUE_VALUES) THEN Return("True")
            ELSE IF PyIn(data, FALSE_VALUES) THEN Return("False")
            ELSE fail(self, "invalid", [input |-> data])
      [] self.cls = "NullBooleanField" ->
            IF data \in Unhashable THEN Unhashed
            ELSE IF PyIn(data, TRUE_VALUES) THEN Return("True")
            ELSE IF PyIn(data, FALSE_VALUES) THEN Return("False")
            ELSE IF PyIn(data, NULL_VALUES) THEN Return(NoneV)
            ELSE fail(self, "invalid", [input |-> data])
      [] self.cls = "CharField" -> Return(Quote(text_type(data)))
      [] self.cls = "IntegerField" ->
            IF IsIntText(text_type(data))
            THEN Return(ToString(int(text_type(data))))
            ELSE fail(self, "invalid", <<>>)
      [] OTHER -> Raise("NotImplementedError", <<"to_internal_value() must be implemented.">>)

\* coerce_blank_to_null switched off for every class
coerce_blank_to_null_never(cls) == FALSE

\* the class attribute coerce_blank_to_null
coerce_blank_to_null(cls) == cls # "CharField"

-----------------------------------------------------------------------------
(* The validator pipeline and run_validation.  Both return the outcome,    *)
(* the hooks invoked in order, and the field injected into the             *)
(* context-requiring validator object (its attribute serializer_field).    *)

CallOf(validator) == "validator:" \o validator.cls

\* the for loop of run_validators, leaving at the first validator that fails
RECURSIVE RunValidatorsLoop_first_failure(_, _, _, _, _, _)
RunValidatorsLoop_first_failure(self_id, validators, value, errors, called, injected) ==
    IF validators = <<>> \/ errors # <<>>
    THEN [errors |-> errors, calls |-> called, injected |-> injected]
    ELSE LET validator == Head(validators)
             inj == IF requires_context(validator) THEN self_id ELSE injected
         IN  RunValidatorsLoop_first_failure(self_id, Tail(validators), value,
                               errors \o ValidatorMessages(validator, value, inj),
                               Append(called, CallOf(validator)), inj)

\* the for loop of run_validators over the validators not yet called
RECURSIVE RunValidatorsLoop(_, _, _, _, _, _)
RunValidatorsLoop(self_id, validators, value, errors, called, injected) ==
    IF validators = <<>>
    THEN [errors |-> errors, calls |-> called, injected |-> injected]
    ELSE LET validator == Head(validators)
             inj == IF requires_context(validator) THEN self_id ELSE injected
         IN  RunValidatorsLoop(self_id, Tail(validators), value,
                               errors \o ValidatorMessages(validator, value, inj),
                               Append(called, CallOf(validator)), inj)

\* Field.run_validators(self, value)
run_validators(self_id, self, value, injected) ==
    LET r == RunValidatorsLoop(self_id, self.validators, value, <<>>, <<>>, injected)
    IN  [out |-> IF r.errors # <<>> THEN Raise("ValidationError", r.errors)
                 ELSE Return(NoneV),
         calls |-> r.calls,
         injected |-> r.injected]

\* null_check without the test of allow_null
null_check_always_allowed(self) == Return(NoneV)

\* the branch 'if data is None' of run_validation
null_check(self) ==
    IF ~self.allow_null THEN fail(self, "null", <<>>) ELSE Return(NoneV)

Quiet(out, injected) == [out |-> out, calls |-> <<>>, injected |-> injected]

\* Field.run_validation(self, data)
Field_run_validation(self_id, self, fld, data, injected) ==
    IF data = empty
    THEN IF root_partial(self_id, fld) THEN Quiet(Raise("SkipField", <<>>), injected)
         ELSE IF self.required THEN Quiet(fail(self, "required", <<>>), injected)
         ELSE [out |-> get_default(self), calls |-> <<"get_default">>, injected |-> injected]
    ELSE LET d == IF PyEq(data, "''") /\ coerce_blank_to_null(self.cls) THEN NoneV ELSE data
         IN  IF d = NoneV
             THEN Quiet(null_check(self), injected)
             ELSE LET value == to_internal_value(self, d)
                      checked == run_validators(self_id, self, value.value, injected)
                  IN  IF value.kind # "return"
                      THEN [out |-> value, calls |-> <<"to_internal_value">>,
                            injected |-> injected]
                      ELSE IF checked.out.kind # "return"
                      THEN [out |-> checked.out,
                            calls |-> <<"to_internal_value">> \o checked.calls,
                            injected |-> checked.injected]
                      ELSE [out |-> value,
                            calls |-> <<"to_internal_value">> \o checked.calls \o <<"validate">>,
                            injected |-> checked.injected]

\* CharField.run_validation without its test for the empty string
CharField_run_validation_no_blank_test(self_id, self, fld, data, injected) ==
    Field_run_validation(self_id, self, fld, data, injected)

\* CharField.run_validation(self, data)
CharField_run_validation(self_id, self, fld, data, injected) ==
    IF PyEq(data, "''")
    THEN IF ~self.allow_blank THEN Quiet(fail(self, "blank", <<>>), injected)
         ELSE Quiet(Return("''"), injected)
    ELSE Field_run_validation(self_id, self, fld, data, injected)

\* self.run_validation(data), dispatched on the class of self
run_validation(self_id, self, fld, data, injected) ==
    IF self.cls = "CharField"
    THEN CharField_run_validation(self_id, self, fld, data, injected)
    ELSE Field_run_validation(self_id, self, fld, data, injected)

-----------------------------------------------------------------------------
(* The life of one field instance: construction, binding, validation.     *)

NoCall == [op |-> "none", cls |-> "-", kwargs |-> <<>>, data |-> "-", key |-> "-",
           out |-> Return(NoneV)]
Call(op, cls, kwargs, data, key, out) ==
    [op |-> op, cls |-> cls, kwargs |-> kwargs, data |-> data, key |-> key, out |-> out]

NoInstance == [kind |-> "None", items |-> <<>>]
EmptyDict == [kind |-> "dict", items |-> <<>>]

\* keyword arguments given to a constructor; <<>> leaves the argument out
ReadOnlyArgs == {<<>>, [read_only |-> TRUE]}
WriteOnlyArgs == {<<>>, [write_only |-> TRUE]}
RequiredArgs == {<<>>, [required |-> TRUE], [required |-> FALSE]}
DefaultArgs == {<<>>, [default |-> "3"]}
AllowNullArgs == {<<>>, [allow_null |-> TRUE]}
ValidatorArgs(cls) ==
    IF cls = "IntegerField" THEN {<<>>, [validators |-> <<Validator("a")>>]} ELSE {<<>>}
MessageArgs == {<<>>, [error_messages |-> [required |-> <<"Needed.">>,
                                           custom |-> <<"Custom ", "{input}", ".">>]]}
AllowBlankArgs(cls) == IF cls = "CharField" THEN {<<>>, [allow_blank |-> TRUE]} ELSE {<<>>}

KwargsFor(cls) ==
    {a @@ b @@ c @@ d @@ e @@ f @@ g @@ h :
        a \in ReadOnlyArgs, b \in WriteOnlyArgs, c \in RequiredArgs, d \in DefaultArgs,
        e \in AllowNullArgs, f \in ValidatorArgs(cls), g \in MessageArgs,
        h \in AllowBlankArgs(cls)}

Data == {empty, NoneV, "''", "'abc'", "'01'", "1", "True"}
FailKeys == {"required", "invalid", "custom", "bogus"}
FailKwargs == {<<>>, [input |-> "1"]}
FieldNames == {"age"}

Init ==
    /\ field = NoField
    /\ last = NoCall
    /\ calls = <<>>
    /\ serializer_field = NoneV
    /\ instance = NoInstance
    /\ container = EmptyDict

\* field = cls(**kwargs): the one constructor call whose instance is followed
ConstructField(cls, kwargs) ==
    /\ field = NoField
    /\ last = NoCall
    /\ LET r == Construct(cls, kwargs)
       IN  /\ field' = r.self
           /\ last' = Call("__init__", cls, kwargs, "-", "-", r.out)
    /\ calls' = <<>>
    /\ UNCHANGED <<serializer_field, instance, container>>

\* field.bind(field_name, parent)
Bind(field_name, parent) ==
    /\ field # NoField
    /\ LET r == bind(field, field_name, parent)
       IN  /\ field' = r.self
           /\ last' = Call("bind", field.cls, <<>>, field_name, parent, r.out)
    /\ calls' = <<>>
    /\ UNCHANGED <<serializer_field, instance, container>>

\* field.run_validation(data)
RunValidation(data) ==
    /\ field # NoField
    /\ LET r == run_validation("field", field, field, data, serializer_field)
       IN  /\ last' = Call("run_validation", field.cls, <<>>, data, "-", r.out)
           /\ calls' = r.calls
           /\ serializer_field' = r.injected
    /\ UNCHANGED <<field, instance, container>>

\* field.fail(key, **kwargs)
Fail(key, kwargs) ==
    /\ field # NoField
    /\ last' = Call("fail", field.cls, kwargs, "-", key, fail(field, key, kwargs))
    /\ calls' = <<>>
    /\ UNCHANGED <<field, serializer_field, instance, container>>

Next ==
    \/ \E cls \in Classes : \E kwargs \in KwargsFor(cls) : ConstructField(cls, kwargs)
    \/ \E field_name \in FieldNames, parent \in DOMAIN Parents : Bind(field_name, parent)
    \/ \E data \in Data : RunValidation(data)
    \/ \E key \in FailKeys, kwargs \in FailKwargs : Fail(key, kwargs)

Spec == Init /\ [][Next]_vars

-----------------------------------------------------------------------------
(* Properties of the field contract *)

IsRunValidation(data) == last.op = "run_validation" /\ last.data = data
NoParseNoValidators ==
    \A i \in DOMAIN calls : calls[i] = "get_default"

\* the parents whose chain ends in a serializer in partial mode
PartialRooted == {"top_partial", "in_partial"}

\* C1: run_validation(empty) skips the field when the root of the parent
\* chain is partial (even a required field), otherwise fails 'required' when
\* the field is required, otherwise returns get_default() (a skip when no
\* default is configured); it never calls parse, a validator or validate.
C1_AbsentSkipsRequiredOrDefault ==
    IsRunValidation(empty) =>
        /\ NoParseNoValidators
        /\ IF field.parent \in PartialRooted
           THEN last.out = Raise("SkipField", <<>>)
           ELSE IF field.required
           THEN /\ last.out.kind = "ValidationError"
                /\ last.out.messages \in {<<"This field is required.">>, <<"Needed.">>}
           ELSE IF field.default = empty
           THEN last.out = Raise("SkipField", <<>>)
           ELSE last.out = Return(field.default)

C1_Witness ==
    /\ IsRunValidation(empty)
    /\ field.required
    /\ field.parent = "in_partial"
    /\ last.out.kind = "SkipField"

\* C2: run_validation(None) fails 'null' when allow_null is false and returns
\* None when allow_null is true, and calls neither parse, nor a validator,
\* nor validate.
C2_NullNeverParsed ==
    IsRunValidation(NoneV) =>
        /\ calls = <<>>
        /\ IF field.allow_null
           THEN last.out = Return(NoneV)
           ELSE last.out = Raise("ValidationError", <<"This field may not be null.">>)

C2_Witness ==
    /\ IsRunValidation(NoneV)
    /\ field.cls = "IntegerField"
    /\ field.validators # <<>>
    /\ field.allow_null
    /\ last.out = Return(NoneV)

\* the arguments as the base constructor sees them
GivenReadOnly(cls, kwargs) == cls = "ReadOnlyField" \/ Get(kwargs, "read_only", FALSE)
GivenDefault(kwargs) == "default" \in DOMAIN kwargs
ExpectedRequired(cls, kwargs) ==
    IF "required" \in DOMAIN kwargs
    THEN kwargs["required"]
    ELSE ~GivenDefault(kwargs) /\ ~GivenReadOnly(cls, kwargs)
ViolatesInvariantSet(cls, kwargs) ==
    \/ GivenReadOnly(cls, kwargs) /\ Get(kwargs, "write_only", FALSE)
    \/ GivenReadOnly(cls, kwargs) /\ ExpectedRequired(cls, kwargs)
    \/ GivenReadOnly(cls, kwargs) /\ GivenDefault(kwargs)
    \/ ExpectedRequired(cls, kwargs) /\ GivenDefault(kwargs)

\* C5: a constructor call whose arguments break read_only => ~write_only,
\* read_only => ~required, read_only => default is empty or required =>
\* default is empty raises at construction and yields no field; so every
\* constructed field satisfies the four implications.
C5_ConstructionInvariants ==
    /\ (last.op = "__init__" /\ ViolatesInvariantSet(last.cls, last.kwargs)) =>
            (last.out.kind = "AssertionError" /\ field = NoField)
    /\ field # NoField =>
            /\ field.read_only => ~field.write_only
            /\ field.read_only => ~field.required
            /\ field.read_only => field.default = empty
            /\ field.required => field.default = empty

C5_Witness ==
    /\ last.op = "__init__"
    /\ "required" \in DOMAIN last.kwargs
    /\ last.kwargs["required"]
    /\ GivenDefault(last.kwargs)
    /\ ~GivenReadOnly(last.cls, last.kwargs)
    /\ last.out = Raise("AssertionError", <<NOT_REQUIRED_DEFAULT>>)
    /\ field = NoField

\* C6: after a successful construction, required is the value given, or,
\* when none was given, true exactly when no default was given and the field
\* is not read-only.
C6_RequiredDerivation ==
    (last.op = "__init__" /\ last.out.kind = "return") =>
        field.required = ExpectedRequired(last.cls, last.kwargs)

C6_Witness ==
    /\ last.op = "__init__"
    /\ last.out.kind = "return"
    /\ "required" \notin DOMAIN last.kwargs
    /\ GivenDefault(last.kwargs)
    /\ ~field.required

\* the keys of the merged error-message table of the class, plus those given
ExpectedKeys(fld) ==
    {"required", "null"}
    \cup (IF fld.cls \in {"BooleanField", "NullBooleanField"} THEN {"invalid"} ELSE {})
    \cup (IF fld.cls = "IntegerField" THEN {"invalid", "max_value", "min_value"} ELSE {})
    \cup (IF fld.cls = "CharField" THEN {"blank"} ELSE {})
ExpectedMessage(fld, key, kwargs) ==
    CASE key = "custom" -> "Custom " \o text_type(kwargs["input"]) \o "."
      [] key = "required" ->
            IF fld.error_messages["required"] = <<"Needed.">>
            THEN "Needed." ELSE "This field is required."
      [] key = "invalid" /\ fld.cls = "IntegerField" -> "A valid integer is required."
      [] key = "invalid" /\ fld.cls # "IntegerField" ->
            "'" \o text_type(kwargs["input"]) \o "' is not a valid boolean."

\* C10: fail(key) never returns; for a key of the merged error-message table
\* (whose interpolation arguments are supplied) it raises a validation error
\* with the single interpolated message; for an unregistered key it raises an
\* AssertionError that names the field class and the key.
C10_FailNeverReturns ==
    last.op = "fail" =>
        /\ last.out.kind # "return"
        /\ DOMAIN field.error_messages \in {ExpectedKeys(field), ExpectedKeys(field) \cup {"custom"}}
        /\ IF last.key \notin DOMAIN field.error_messages
           THEN last.out = Raise("AssertionError", <<MISSING_ERROR_MESSAGE(field.cls, last.key)>>)
           ELSE IF FormatKeys(field.error_messages[last.key]) \subseteq DOMAIN last.kwargs
           THEN last.out = Raise("ValidationError",
                                 <<ExpectedMessage(field, last.key, last.kwargs)>>)
           ELSE last.out.kind = "KeyError"

C10_Witness ==
    /\ last.op = "fail"
    /\ last.key = "bogus"
    /\ last.out.kind = "AssertionError"
    /\ field.cls = "CharField"

\* C13: CharField.run_validation('') fails 'blank' when allow_blank is false
\* and returns '' when allow_blank is true, whatever required, default,
\* allow_null and the parent are, and calls neither parse nor a validator.
C13_BlankDecidedFirst ==
    (IsRunValidation("''") /\ field.cls = "CharField") =>
        /\ calls = <<>>
        /\ IF field.allow_blank
           THEN last.out = Return("''")
           ELSE last.out = Raise("ValidationError", <<"This field may not be blank.">>)

\* a field with allow_null and a default, under a partial root, that does not
\* allow blank still fails 'blank'
C13_Witness ==
    /\ IsRunValidation("''")
    /\ field.cls = "CharField"
    /\ ~field.allow_blank /\ field.allow_null /\ field.default # empty
    /\ field.parent \in PartialRooted
    /\ last.out = Raise("ValidationError", <<"This field may not be blank.">>)

\* C14: for a class that coerces blank to null (every class but CharField),
\* run_validation('') has the outcome of run_validation(None): it fails 'null'
\* when allow_null is false and returns None when allow_null is true, and
\* to_internal_value is not called.
C14_BlankCoercedToNull ==
    (IsRunValidation("''") /\ field.cls # "CharField") =>
        /\ calls = <<>>
        /\ IF field.allow_null
           THEN last.out = Return(NoneV)
           ELSE last.out = Raise("ValidationError", <<"This field may not be null.">>)

C14_Witness ==
    /\ IsRunValidation("''")
    /\ field.cls = "IntegerField"
    /\ field.allow_null
    /\ field.validators # <<>>
    /\ last.out = Return(NoneV)

-----------------------------------------------------------------------------
(* The validator pipeline of an integer field built with a list of        *)
(* validators and, optionally, max_value.                                 *)

MaxValidators == 3
ValidatorLibrary == {Validator("ok"), Validator("a"), Validator("bc"), Validator("ctx")}
ValidatorLists ==
    UNION {[1..n -> ValidatorLibrary] : n \in 0..MaxValidators}
MaxValueArgs == {<<>>, [max_value |-> 1]}
NativeValues == {"1", "2"}

InitValidators ==
    /\ \E validators \in ValidatorLists, limit \in MaxValueArgs :
            field = Construct("IntegerField", [validators |-> validators] @@ limit).self
    /\ last = NoCall
    /\ calls = <<>>
    /\ serializer_field = NoneV
    /\ instance = NoInstance
    /\ container = EmptyDict

\* field.run_validators(value)
RunValidators(value) ==
    /\ field # NoField
    /\ LET r == run_validators("field", field, value, serializer_field)
       IN  /\ last' = Call("run_validators", field.cls, <<>>, value, "-", r.out)
           /\ calls' = r.calls
           /\ serializer_field' = r.injected
    /\ UNCHANGED <<field, instance, container>>

NextValidators ==
    \/ \E value \in NativeValues : RunValidators(value)
    \/ \E data \in Data : RunValidation(data)

SpecValidators == InitValidators /\ [][NextValidators]_vars

\* the messages of the validators of vs that reject value, in the order of vs
RECURSIVE MessagesInOrder(_, _)
MessagesInOrder(vs, value) ==
    IF vs = <<>> THEN <<>>
    ELSE ValidatorMessages(Head(vs), value, "field") \o MessagesInOrder(Tail(vs), value)

\* C3: run_validators calls every validator once, in declared order, also
\* after one has failed; it raises one ValidationError whose messages are
\* those of the failing validators concatenated in validator order, and
\* raises nothing when none failed.
C3_AllValidatorsRun ==
    last.op = "run_validators" =>
        /\ calls = [i \in 1..Len(field.validators) |-> CallOf(field.validators[i])]
        /\ IF MessagesInOrder(field.validators, last.data) # <<>>
           THEN last.out = Raise("ValidationError",
                                 MessagesInOrder(field.validators, last.data))
           ELSE last.out = Return(NoneV)

C3_Witness ==
    /\ last.op = "run_validators"
    /\ field.validators = <<Validator("bc"), Validator("ok"), Validator("a")>>
    /\ last.out = Raise("ValidationError", <<"b", "c", "a">>)
    /\ calls = <<"validator:bc", "validator:ok", "validator:a">>

-----------------------------------------------------------------------------
(* ListField: a list field holds one child field, bound at construction.   *)

\* a Python list of modelled values, and a value that is not a list
PyList(items) == [py |-> "list", items |-> items, v |-> "-"]
PyScalar(v) == [py |-> "scalar", items |-> <<>>, v |-> v]

\* type(data).__name__
TypeName(v) ==
    CASE IsStr(v) -> "str"
      [] v = NoneV -> "NoneType"
      [] v \in {"True", "False"} -> "bool"
      [] OTHER -> "int"

\* ListField.__init__(self, child=..., **kwargs)
ListField__init__(kwargs) ==
    IF "child" \notin DOMAIN kwargs
    THEN [out |-> Raise("AssertionError", <<"'child' is a required argument.">>),
          self |-> NoField]
    ELSE LET r == Field__init__("ListField", Without(kwargs, {"child"}))
         IN  IF r.out.kind # "return" THEN r
             ELSE [r EXCEPT !.self =
                        Update(@, [child |-> bind(kwargs["child"], "", "field").self])]

\* the list comprehension of ListField.to_internal_value over the items not
\* yet visited: an exception of the child ends it
RECURSIVE ListComprehension(_, _, _, _, _)
ListComprehension(fld, items, values, called, injected) ==
    IF items = <<>>
    THEN [out |-> Return(values), calls |-> called, injected |-> injected]
    ELSE LET r == run_validation("child", fld.child, fld, Head(items), injected)
             now == (called \o <<"child.run_validation">>) \o r.calls
         IN  IF r.out.kind # "return"
             THEN [out |-> r.out, calls |-> now, injected |-> r.injected]
             ELSE ListComprehension(fld, Tail(items), Append(values, r.out.value),
                                    now, r.injected)

\* ListField.to_internal_value(self, data)
ListField_to_internal_value(self, data, injected) ==
    IF data.py # "list"
    THEN Quiet(fail(self, "not_a_list", [input_type |-> TypeName(data.v)]), injected)
    ELSE ListComprehension(self, data.items, <<>>, <<>>, injected)

MaxLen == 3
Items == {"'1'", "'abc'", "'3'"}
ListData ==
    {PyList(items) : items \in UNION {[1..n -> Items] : n \in 0..MaxLen}}
    \cup {PyScalar("'abc'"), PyScalar("1")}
ChildKwargs == {<<>>, [allow_null |-> TRUE], [max_value |-> 1]}

InitList ==
    /\ \E kwargs \in ChildKwargs :
            field = ListField__init__([child |-> Construct("IntegerField", kwargs).self]).self
    /\ last = NoCall
    /\ calls = <<>>
    /\ serializer_field = NoneV
    /\ instance = NoInstance
    /\ container = EmptyDict

\* field.to_internal_value(data) on the list field
ListToInternalValue(data) ==
    /\ field # NoField
    /\ LET r == ListField_to_internal_value(field, data, serializer_field)
       IN  /\ last' = Call("ListField.to_internal_value", field.cls, <<>>, data, "-", r.out)
           /\ calls' = r.calls
           /\ serializer_field' = r.injected
    /\ UNCHANGED <<field, instance, container>>

NextList == \E data \in ListData : ListToInternalValue(data)

SpecList == InitList /\ [][NextList]_vars

ChildRuns == Cardinality({i \in DOMAIN calls : calls[i] = "child.run_validation"})

\* C4: list parse runs the child's run_validation on every element of the
\* input, also after an element has failed, and a raised error has one entry
\* per element position; for ['1', 'abc', '3'] all three elements are
\* validated.
C4_EveryElementValidated ==
    (last.op = "ListField.to_internal_value" /\ last.data.py = "list") =>
        /\ ChildRuns = Len(last.data.items)
        /\ last.out.kind = "ValidationError" => Len(last.out.messages) = Len(last.data.items)

-----------------------------------------------------------------------------
(* The attribute path resolver.  A value of the object graph is a record   *)
(* [kind, items]: an object with attributes, a dict with keys, or a scalar *)
(* (kind is its repr).  An attribute holding DoesNotExist raises           *)
(* ObjectDoesNotExist when it is read (a broken relation).                 *)

Scalar(v) == [kind |-> v, items |-> <<>>]
Object(attrs) == [kind |-> "object", items |-> attrs]
Dict(entries) == [kind |-> "dict", items |-> entries]
DoesNotExist == [kind |-> "DoesNotExist", items |-> <<>>]

\* getattr(instance, attr): the outcome
getattr(inst, attr) ==
    IF inst.kind = "object" /\ attr \in DOMAIN inst.items
    THEN IF inst.items[attr] = DoesNotExist
         THEN Raise("ObjectDoesNotExist", <<>>)
         ELSE Return(inst.items[attr])
    ELSE Raise("AttributeError", <<attr>>)

\* instance[attr]: the outcome
getitem(inst, attr) ==
    IF inst.kind = "dict"
    THEN IF attr \in DOMAIN inst.items THEN Return(inst.items[attr])
         ELSE Raise("KeyError", <<attr>>)
    ELSE Raise("TypeError", <<attr>>)

\* get_attribute(instance, attrs): the outcome and the lookups made
RECURSIVE get_attribute_from(_, _, _)
get_attribute_from(inst, attrs, looked) ==
    IF attrs = <<>> THEN [out |-> Return(inst), calls |-> looked]
    ELSE LET attr == Head(attrs)
             got == getattr(inst, attr)
             now == Append(looked, "getattr:" \o attr)
         IN  IF got.kind = "return"
             THEN get_attribute_from(got.value, Tail(attrs), now)
             ELSE IF got.kind = "ObjectDoesNotExist"
             THEN [out |-> Return(Scalar(NoneV)), calls |-> now]
             ELSE \* except AttributeError as exc: return instance[attr]
                  IF getitem(inst, attr).kind = "return"
                  THEN [out |-> getitem(inst, attr), calls |-> Append(now, "getitem:" \o attr)]
                  ELSE [out |-> got, calls |-> Append(now, "getitem:" \o attr)]

get_attribute(inst, attrs) == get_attribute_from(inst, attrs, <<>>)

\* to_representation(self, value) of the class of self, on a graph value
to_representation(self, value) ==
    CASE self.cls = "IntegerField" ->
            IF IsIntText(value.kind) THEN Return(Scalar(ToString(int(value.kind))))
            ELSE Raise("TypeError", <<>>)
      [] self.cls = "ReadOnlyField" -> Return(value)
      [] OTHER -> Raise("NotImplementedError", <<"to_representation() must be implemented.">>)

\* get_field_representation without the test 'if attribute is None'
get_field_representation_unguarded(self, inst) ==
    LET attribute == get_attribute(inst, self.source_attrs)
    IN  IF attribute.out.kind # "return" THEN attribute
        ELSE [out |-> to_representation(self, attribute.out.value),
              calls |-> Append(attribute.calls, "to_representation")]

\* Field.get_field_representation(self, instance)
get_field_representation(self, inst) ==
    LET attribute == get_attribute(inst, self.source_attrs)
    IN  IF attribute.out.kind # "return" THEN attribute
        ELSE IF attribute.out.value = Scalar(NoneV)
        THEN [out |-> Return(Scalar(NoneV)), calls |-> attribute.calls]
        ELSE [out |-> to_representation(self, attribute.out.value),
              calls |-> Append(attribute.calls, "to_representation")]

\* the object graphs of nesting depth at most d, each node with at most one
\* attribute or key
MaxDepth == 2
Entries(values) == {<<>>} \cup {n :> v : n \in StepNames, v \in values}
RECURSIVE Graphs(_)
Graphs(d) ==
    IF d = 0 THEN {Scalar(NoneV), Scalar("1")}
    ELSE {Scalar(NoneV), Scalar("1")}
         \cup {Object(attrs) : attrs \in Entries(Graphs(d - 1) \cup {DoesNotExist})}
         \cup {Dict(entries) : entries \in Entries(Graphs(d - 1))}

Sources == {Dotted(path) : path \in Paths} \cup {"*"}
RepresentedClasses == {"IntegerField", "ReadOnlyField"}

InitGet ==
    /\ instance \in Graphs(MaxDepth)
    /\ \E cls \in RepresentedClasses, source \in Sources :
            field = bind(Construct(cls, [source |-> source]).self, "age", "top_full").self
    /\ last = NoCall
    /\ calls = <<>>
    /\ serializer_field = NoneV
    /\ container = EmptyDict

\* get_attribute(instance, field.source_attrs)
GetAttribute ==
    /\ LET r == get_attribute(instance, field.source_attrs)
       IN  /\ last' = Call("get_attribute", "-", <<>>, field.source_attrs, "-", r.out)
           /\ calls' = r.calls
    /\ UNCHANGED <<field, serializer_field, instance, container>>

\* field.get_field_representation(instance)
GetFieldRepresentation ==
    /\ LET r == get_field_representation(field, instance)
       IN  /\ last' = Call("get_field_representation", field.cls, <<>>,
                           field.source_attrs, "-", r.out)
           /\ calls' = r.calls
    /\ UNCHANGED <<field, serializer_field, instance, container>>

NextGet == GetAttribute \/ GetFieldRepresentation

SpecGet == InitGet /\ [][NextGet]_vars

\* every step of path finds an attribute of an object or a key of a dict
RECURSIVE Resolvable(_, _)
Resolvable(node, path) ==
    \/ path = <<>>
    \/ /\ node.kind \in {"object", "dict"}
       /\ Head(path) \in DOMAIN node.items
       /\ node.items[Head(path)] # DoesNotExist
       /\ Resolvable(node.items[Head(path)], Tail(path))

\* the value reached after every step of path
RECURSIVE Walk(_, _)
Walk(node, path) ==
    IF path = <<>> THEN node ELSE Walk(node.items[Head(path)], Tail(path))

\* C7: for a path of n >= 1 steps, each found as an attribute of an object
\* or as a key of a mapping, get_attribute returns the value reached after
\* all n steps.
C7_WalksEveryStep ==
    (last.op = "get_attribute" /\ last.data # <<>> /\ Resolvable(instance, last.data)) =>
        last.out = Return(Walk(instance, last.data))

\* the number of the step of path, walked through objects, whose attribute
\* raises ObjectDoesNotExist; 0 when there is none
RECURSIVE BrokenStep(_, _)
BrokenStep(node, path) ==
    IF path = <<>> \/ node.kind # "object" \/ Head(path) \notin DOMAIN node.items THEN 0
    ELSE IF node.items[Head(path)] = DoesNotExist THEN 1
    ELSE IF BrokenStep(node.items[Head(path)], Tail(path)) = 0 THEN 0
    ELSE 1 + BrokenStep(node.items[Head(path)], Tail(path))

Resolved == get_attribute(instance, field.source_attrs).out

\* C8: when the attribute lookup of a step raises ObjectDoesNotExist,
\* get_attribute returns None after that lookup, making no further lookup
\* and raising nothing; and whenever the source path resolves to None,
\* get_field_representation returns None and never calls to_representation.
C8_BrokenRelationAndNullAreNull ==
    /\ (last.op = "get_attribute" /\ BrokenStep(instance, last.data) > 0) =>
            /\ last.out = Return(Scalar(NoneV))
            /\ calls = [i \in 1..BrokenStep(instance, last.data) |->
                            "getattr:" \o last.data[i]]
    /\ (last.op = "get_field_representation" /\ Resolved = Return(Scalar(NoneV))) =>
            /\ last.out = Return(Scalar(NoneV))
            /\ \A i \in DOMAIN calls : calls[i] # "to_representation"

C8_Witness ==
    /\ last.op = "get_field_representation"
    /\ field.cls = "IntegerField"
    /\ Len(field.source_attrs) = 2
    /\ BrokenStep(instance, field.source_attrs) = 1
    /\ last.out = Return(Scalar(NoneV))
    /\ calls = <<"getattr:" \o field.source_attrs[1]>>

-----------------------------------------------------------------------------
(* set_value on a dictionary of nested dictionaries *)

\* the loop of set_value, always starting a fresh level instead of reusing
\* the one that exists
RECURSIVE SetNested_fresh_levels(_, _, _)
SetNested_fresh_levels(dictionary, keys, value) ==
    IF dictionary.kind # "dict" THEN [out |-> Raise("TypeError", <<>>), dict |-> dictionary]
    ELSE IF Len(keys) = 1
    THEN [out |-> Return(Scalar(NoneV)),
          dict |-> Dict(Update(dictionary.items, Head(keys) :> value))]
    ELSE LET inner == SetNested_fresh_levels(Dict(<<>>), Tail(keys), value)
         IN  [out |-> inner.out,
              dict |-> Dict(Update(dictionary.items, Head(keys) :> inner.dict))]

\* the loop of set_value over keys[:-1] and its final assignment: the outcome
\* and the dictionary afterwards ('key not in dictionary' and
\* 'dictionary[key] = value' raise TypeError on a value that is no dict)
RECURSIVE SetNested(_, _, _)
SetNested(dictionary, keys, value) ==
    IF dictionary.kind # "dict" THEN [out |-> Raise("TypeError", <<>>), dict |-> dictionary]
    ELSE IF Len(keys) = 1
    THEN [out |-> Return(Scalar(NoneV)),
          dict |-> Dict(Update(dictionary.items, Head(keys) :> value))]
    ELSE LET key == Head(keys)
             level == IF key \notin DOMAIN dictionary.items
                      THEN Dict(<<>>) ELSE dictionary.items[key]
             inner == SetNested(level, Tail(keys), value)
         IN  IF inner.out.kind # "return"
             THEN [out |-> inner.out, dict |-> dictionary]
             ELSE [out |-> inner.out,
                   dict |-> Dict(Update(dictionary.items, key :> inner.dict))]

\* set_value(dictionary, keys, value)
set_value(dictionary, keys, value) ==
    IF keys = <<>>
    THEN IF value.kind # "dict"
         THEN [out |-> Raise("TypeError", <<>>), dict |-> dictionary]
         ELSE [out |-> Return(Scalar(NoneV)),
               dict |-> Dict(Update(dictionary.items, value.items))]
    ELSE SetNested(dictionary, keys, value)

MaxKeys == 2
KeyPaths == UNION {[1..n -> StepNames] : n \in 0..MaxKeys}
\* what is stored under a path, and what is merged with the empty path
StoredValues == {Scalar("2")}
MergedValues == {Dict("a" :> Scalar("2")), Dict("b" :> Scalar("2")),
                 Dict(("a" :> Scalar("2")) @@ ("b" :> Scalar("2"))), Scalar("2")}

InitSet ==
    /\ container = EmptyDict
    /\ field = NoField
    /\ last = NoCall
    /\ calls = <<>>
    /\ serializer_field = NoneV
    /\ instance = NoInstance

\* set_value(container, keys, value)
SetValue(keys, value) ==
    /\ LET r == set_value(container, keys, value)
       IN  /\ container' = r.dict
           /\ last' = Call("set_value", "-", [value |-> value], keys, "-", r.out)
    /\ UNCHANGED <<field, calls, serializer_field, instance>>

NextSet ==
    \/ \E keys \in KeyPaths \ {<<>>}, value \in StoredValues : SetValue(keys, value)
    \/ \E value \in MergedValues : SetValue(<<>>, value)

SpecSet == InitSet /\ [][NextSet]_vars

Missing == [kind |-> "missing", items |-> <<>>]

\* the value found by a key-by-key walk of path, Missing when a key is absent
RECURSIVE Lookup(_, _)
Lookup(node, path) ==
    IF path = <<>> THEN node
    ELSE IF node.kind = "dict" /\ Head(path) \in DOMAIN node.items
    THEN Lookup(node.items[Head(path)], Tail(path))
    ELSE Missing

IsPrefix(p, q) == Len(p) <= Len(q) /\ SubSeq(q, 1, Len(p)) = p
Prefix(path, n) == SubSeq(path, 1, n)
\* every path the dictionaries reached can hold
ProbePaths == UNION {[1..n -> StepNames] : n \in 1..(MaxKeys + 1)}

AfterMerge(before, value, after) ==
    /\ after.kind = "dict"
    /\ DOMAIN after.items = DOMAIN before.items \cup DOMAIN value.items
    /\ \A k \in DOMAIN value.items : after.items[k] = value.items[k]
    /\ \A k \in DOMAIN before.items \ DOMAIN value.items : after.items[k] = before.items[k]

AfterSet(before, keys, value, after) ==
    /\ Lookup(after, keys) = value
    /\ \A n \in 1..(Len(keys) - 1) :
            /\ Lookup(after, Prefix(keys, n)).kind = "dict"
            /\ DOMAIN Lookup(after, Prefix(keys, n)).items =
                    {keys[n + 1]} \cup
                    (IF Lookup(before, Prefix(keys, n)) = Missing THEN {}
                     ELSE DOMAIN Lookup(before, Prefix(keys, n)).items)
    /\ \A path \in ProbePaths :
            (~IsPrefix(path, keys) /\ ~IsPrefix(keys, path)) =>
                Lookup(after, path) = Lookup(before, path)

\* C9: a set_value that returns changes exactly the addressed entry: with the
\* empty path the entries of value are merged into the container, equal keys
\* overwritten and the other keys kept; with a path, a key-by-key walk of
\* the path then yields value, each missing level was created empty and holds
\* only the next key, each existing level keeps its other entries, and every
\* entry off the path is unchanged.
C9_SetChangesOnlyThePath ==
    [][(last'.op = "set_value" /\ last'.out.kind = "return") =>
            IF last'.data = <<>>
            THEN AfterMerge(container, last'.kwargs.value, container')
            ELSE AfterSet(container, last'.data, last'.kwargs.value, container')]_vars

\* a level of the path exists and is reused, another entry is kept
C9_Witness ==
    /\ last.op = "set_value"
    /\ last.out.kind = "return"
    /\ last.data = <<"a", "b">>
    /\ container = Dict(("a" :> Dict(("a" :> Scalar("2")) @@ ("b" :> Scalar("2"))))
                        @@ ("b" :> Dict("a" :> Scalar("2"))))

-----------------------------------------------------------------------------
(* Binding one field instance more than once: to serializers under several *)
(* names, and as the child of a list field.                                *)

BindNames == {"age", "first_name"}
SourceArgs == {<<>>, [source |-> "a.b"], [source |-> "*"]}
LabelArgs == {<<>>, [label |-> "Years"]}
BoundClasses == {"IntegerField", "CharField"}

InitBind ==
    /\ \E cls \in BoundClasses, a \in SourceArgs, b \in LabelArgs :
            field = Construct(cls, a @@ b).self
    /\ last = NoCall
    /\ calls = <<>>
    /\ serializer_field = NoneV
    /\ instance = NoInstance
    /\ container = EmptyDict

\* ListField(child=field): the constructor binds the child it is given
ListFieldOfChild ==
    /\ field # NoField
    /\ LET r == ListField__init__([child |-> field])
       IN  /\ field' = r.self.child
           /\ last' = Call("bind", field.cls, <<>>, "", "field", r.out)
    /\ calls' = <<>>
    /\ UNCHANGED <<serializer_field, instance, container>>

NextBind ==
    \/ \E field_name \in BindNames, parent \in DOMAIN Parents : Bind(field_name, parent)
    \/ ListFieldOfChild

SpecBind == InitBind /\ [][NextBind]_vars

IsBound(fld) == fld.parent # NoneV

\* C11: a bind on a field that is already bound is an error, whatever the
\* field_name and parent, and leaves field_name, parent and source_attrs as
\* the first bind set them.
C11_BoundAtMostOnce ==
    [][(IsBound(field) /\ last'.op = "bind") =>
            /\ last'.out.kind = "AssertionError"
            /\ field'.field_name = field.field_name
            /\ field'.parent = field.parent
            /\ field'.source_attrs = field.source_attrs]_vars

-----------------------------------------------------------------------------
(* get_default on fields built with each kind of default.                  *)

DefaultValues == {"3", NoneV} \cup DOMAIN Callables
DefaultClasses == {"Field", "IntegerField", "CharField"}

InitDefault ==
    /\ \E cls \in DefaultClasses, a \in {<<>>} \cup {[default |-> d] : d \in DefaultValues},
          b \in AllowNullArgs :
            field = Construct(cls, a @@ b).self
    /\ last = NoCall
    /\ calls = <<>>
    /\ serializer_field = NoneV
    /\ instance = NoInstance
    /\ container = EmptyDict

\* field.get_default()
GetDefault ==
    /\ field # NoField
    /\ LET r == get_default_with_calls(field)
       IN  /\ last' = Call("get_default", field.cls, <<>>, "-", "-", r.out)
           /\ calls' = r.calls
    /\ UNCHANGED <<field, serializer_field, instance, container>>

NextDefault ==
    \/ GetDefault
    \/ \E data \in Data : RunValidation(data)

SpecDefault == InitDefault /\ [][NextDefault]_vars

\* a callable that can be called with no arguments: a function or a method
\* whose parameters (after self) all have defaults, a class, a built-in
TakesNoArguments(obj) ==
    /\ obj \in DOMAIN Callables
    /\ LET c == Callables[obj]
       IN  (IF c.method THEN c.args - 1 ELSE c.args) <= c.defaults

\* C12: get_default raises SkipField when no default is configured; when the
\* default is a zero-argument producer every call invokes it and returns its
\* result; otherwise the static default is returned unchanged.
C12_SkipProducerOrStatic ==
    last.op = "get_default" =>
        IF field.default = empty
        THEN last.out = Raise("SkipField", <<>>) /\ calls = <<>>
        ELSE IF TakesNoArguments(field.default)
        THEN /\ last.out = Return(Callables[field.default].result)
             /\ calls = <<"default()">>
        ELSE last.out = Return(field.default) /\ calls = <<>>

-----------------------------------------------------------------------------
(* DecimalField.  A decimal literal (the text given to decimal.Decimal) is *)
(* a record [special, sign, int_part, frac_part, exp]: the text            *)
(* int_part.frac_part E exp, or the text of a NaN, an infinity, or of no   *)
(* number.  A Decimal is a record [special, sign, digits, exponent], as    *)
(* as_tuple() gives it.                                                    *)

RECURSIVE DigitsToNat(_)
DigitsToNat(ds) ==
    IF ds = <<>> THEN 0 ELSE DigitsToNat(SubSeq(ds, 1, Len(ds) - 1)) * 10 + ds[Len(ds)]

RECURSIVE NatToDigits(_)
NatToDigits(n) == IF n < 10 THEN <<n>> ELSE Append(NatToDigits(n \div 10), n % 10)

RECURSIVE Pow10(_)
Pow10(k) == IF k = 0 THEN 1 ELSE 10 * Pow10(k - 1)

Zeros(k) == [i \in 1..k |-> 0]

Literal(sign, int_part, frac_part, exp) ==
    [special |-> "finite", sign |-> sign, int_part |-> int_part, frac_part |-> frac_part,
     exp |-> exp]
SpecialLiteral(special, sign) ==
    [special |-> special, sign |-> sign, int_part |-> <<>>, frac_part |-> <<>>, exp |-> 0]

\* decimal.Decimal(text): the coefficient without leading zeros, the exponent
\* lowered by the number of digits after the point
Decimal(lit) ==
    IF lit.special # "finite"
    THEN [special |-> lit.special, sign |-> lit.sign, digits |-> <<>>, exponent |-> 0]
    ELSE [special |-> "finite", sign |-> lit.sign,
          digits |-> NatToDigits(DigitsToNat(lit.int_part \o lit.frac_part)),
          exponent |-> lit.exp - Len(lit.frac_part)]

\* DecimalField.__init__(self, max_digits, decimal_places, coerce_to_string=None, **kwargs)
DecimalField__init__(kwargs) ==
    LET r == Field__init__("DecimalField",
                           Without(kwargs, {"max_digits", "decimal_places", "coerce_to_string"}))
    IN  IF r.out.kind # "return" THEN r
        ELSE [r EXCEPT !.self = Update(@, [max_digits |-> kwargs["max_digits"],
                                           decimal_places |-> kwargs["decimal_places"],
                                           coerce_to_string |-> Get(kwargs, "coerce_to_string", TRUE)])]

\* sign, digittuple, exponent = value.as_tuple() and the counts taken from it
DigitCounts(value) ==
    LET decimals == IF value.exponent < 0 THEN 0 - value.exponent ELSE value.exponent
        len == Len(value.digits)
        digits == IF decimals > len THEN decimals ELSE len
    IN  [digits |-> digits, decimals |-> decimals, whole_digits |-> digits - decimals]

\* str(value) of a finite Decimal: plain digits when the exponent is not
\* positive (and the value not below 1E-6), otherwise d.dddE+n
DecimalStr(value) ==
    LET len == Len(value.digits)
        k == 0 - value.exponent
    IN  IF value.exponent > 0
        THEN Literal(value.sign, <<Head(value.digits)>>, Tail(value.digits),
                     value.exponent + len - 1)
        ELSE IF len <= k
        THEN Literal(value.sign, <<0>>, Zeros(k - len) \o value.digits, 0)
        ELSE Literal(value.sign, SubSeq(value.digits, 1, len - k),
                     SubSeq(value.digits, len - k + 1, len), 0)

\* smart_text(value).strip(): a text is itself, a Decimal is printed
smart_text(value) == IF "digits" \in DOMAIN value THEN DecimalStr(value) ELSE value

\* DecimalField.to_internal_value(self, value)
DecimalField_to_internal_value(self, data) ==
    LET value == Decimal(smart_text(data))
        n == DigitCounts(value)
    IN  IF value.special = "invalid" THEN fail(self, "invalid", <<>>)
        ELSE IF value.special = "sNaN" THEN Raise("InvalidOperation", <<>>)
        ELSE IF value.special = "NaN" THEN fail(self, "invalid", <<>>)
        ELSE IF value.special = "Infinity" THEN fail(self, "invalid", <<>>)
        ELSE IF n.digits > self.max_digits
        THEN fail(self, "max_digits", [max_digits |-> ToString(self.max_digits)])
        ELSE IF n.decimals > self.decimal_places
        THEN fail(self, "max_decimal_places",
                  [max_decimal_places |-> ToString(self.decimal_places)])
        ELSE IF n.whole_digits > self.max_digits - self.decimal_places
        THEN fail(self, "max_whole_digits",
                  [max_whole_digits |-> ToString(self.max_digits - self.decimal_places)])
        ELSE Return(value)

\* value.quantize(Decimal('.1') ** decimal_places, context) with context.prec
\* = prec and ROUND_HALF_EVEN, for a finite value: the Decimal, or
\* InvalidOperation when the result needs more than prec digits
quantize(value, decimal_places, prec) ==
    LET N == DigitsToNat(value.digits)
        shift == value.exponent + decimal_places
        drop == Pow10(0 - shift)
        q == N \div drop
        r == N % drop
        coefficient ==
            IF shift >= 0 THEN N * Pow10(shift)
            ELSE IF 2 * r > drop \/ (2 * r = drop /\ q % 2 = 1) THEN q + 1 ELSE q
        result == [special |-> "finite", sign |-> value.sign,
                   digits |-> NatToDigits(coefficient), exponent |-> 0 - decimal_places]
    IN  IF N = 0 THEN Return([result EXCEPT !.digits = <<0>>])
        ELSE IF Len(value.digits) + shift > prec THEN Raise("InvalidOperation", <<>>)
        ELSE IF Len(result.digits) > prec THEN Raise("InvalidOperation", <<>>)
        ELSE Return(result)

\* '{0:f}'.format(value) for a value whose exponent is not positive
FixedPoint(value) ==
    LET k == 0 - value.exponent
        len == Len(value.digits)
    IN  IF len <= k
        THEN Literal(value.sign, <<0>>, Zeros(k - len) \o value.digits, 0)
        ELSE Literal(value.sign, SubSeq(value.digits, 1, len - k),
                     SubSeq(value.digits, len - k + 1, len), 0)

\* DecimalField.to_representation(self, value) for a finite Decimal
DecimalField_to_representation(self, value) ==
    LET quantized == quantize(value, self.decimal_places, self.max_digits)
    IN  IF quantized.kind # "return" THEN quantized
        ELSE IF ~self.coerce_to_string THEN quantized
        ELSE Return(FixedPoint(quantized.value))

MaxPrecision == 3
MaxIntPart == 2
MaxFracPart == 2
MaxExp == 2
IntDigits == {0, 1, 5}
FracDigits == {0, 5}
DecimalLiterals ==
    {Literal(sign, int_part, frac_part, exp) :
        sign \in {0, 1},
        int_part \in UNION {[1..n -> IntDigits] : n \in 1..MaxIntPart},
        frac_part \in UNION {[1..n -> FracDigits] : n \in 0..MaxFracPart},
        exp \in (0 - MaxExp)..MaxExp}
    \cup {SpecialLiteral(special, sign) :
            special \in {"NaN", "sNaN", "Infinity", "invalid"}, sign \in {0, 1}}
\* native decimals handed to to_representation
DecimalValues ==
    {[special |-> "finite", sign |-> sign, digits |-> NatToDigits(n), exponent |-> e] :
        sign \in {0, 1}, n \in {0, 5, 15, 25, 95, 996}, e \in (0 - MaxExp)..1}
DecimalConfigs ==
    {[max_digits |-> md, decimal_places |-> dp] @@ c :
        md \in 1..MaxPrecision, dp \in 0..MaxPrecision, c \in {<<>>, [coerce_to_string |-> FALSE]}}

InitDecimal ==
    /\ \E kwargs \in DecimalConfigs :
            /\ kwargs.decimal_places <= kwargs.max_digits
            /\ field = DecimalField__init__(kwargs).self
    /\ last = NoCall
    /\ calls = <<>>
    /\ serializer_field = NoneV
    /\ instance = NoInstance
    /\ container = EmptyDict

\* field.to_internal_value(data), the one call made on the field
DecimalToInternalValue(data) ==
    /\ last = NoCall
    /\ last' = Call("to_internal_value", field.cls, <<>>, data, "-",
                    DecimalField_to_internal_value(field, data))
    /\ calls' = <<>>
    /\ UNCHANGED <<field, serializer_field, instance, container>>

\* field.to_representation(value), the one call made on the field
DecimalToRepresentation(value) ==
    /\ last = NoCall
    /\ last' = Call("to_representation", field.cls, <<>>, value, "-",
                    DecimalField_to_representation(field, value))
    /\ calls' = <<>>
    /\ UNCHANGED <<field, serializer_field, instance, container>>

NextDecimal ==
    \/ \E data \in DecimalLiterals : DecimalToInternalValue(data)
    \/ \E value \in DecimalValues : DecimalToRepresentation(value)

SpecDecimal == InitDecimal /\ [][NextDecimal]_vars

\* the digits a finite decimal has when written out: the coefficient digits
\* followed by exponent zeros when the exponent is not negative (a zero is
\* written 0, which is not counted before the point), otherwise -exponent
\* digits after the point
WrittenDigits(value) ==
    LET len == Len(value.digits)
    IN  IF value.exponent >= 0 /\ value.digits = <<0>>
        THEN [total |-> 1, after |-> 0, before |-> 0]
        ELSE IF value.exponent >= 0
        THEN [total |-> len + value.exponent, after |-> 0, before |-> len + value.exponent]
        ELSE LET after == 0 - value.exponent
                 total == IF after > len THEN after ELSE len
             IN  [total |-> total, after |-> after, before |-> total - after]

\* C15: a value DecimalField.to_internal_value accepts has at most max_digits
\* digits in total, at most decimal_places digits after the point and at most
\* max_digits - decimal_places digits before it, whatever the sign, the digits
\* and the exponent of the input; NaN and the infinities fail 'invalid'.
C15_AcceptedWithinLimits ==
    last.op = "to_internal_value" =>
        /\ last.out.kind = "return" =>
                /\ last.out.value.special = "finite"
                /\ WrittenDigits(last.out.value).total <= field.max_digits
                /\ WrittenDigits(last.out.value).after <= field.decimal_places
                /\ WrittenDigits(last.out.value).before
                        <= field.max_digits - field.decimal_places
        /\ last.data.special \in {"NaN", "Infinity"} =>
                /\ last.out.kind = "ValidationError"
                /\ last.out.messages = <<"A valid number is required.">>

-----------------------------------------------------------------------------
(* ChoiceField and MultipleChoiceField.  An item of the choices argument   *)
(* is a record [pair, key, display]: the pair (key, display), or the       *)
(* single value key.                                                       *)

Single(key) == [pair |-> FALSE, key |-> key, display |-> key]
Pair(key, display) == [pair |-> TRUE, key |-> key, display |-> display]

\* repr of the tuple (key, display)
TupleRepr(item) == "(" \o item.key \o ", " \o Quote(item.display) \o ")"

\* SortedDict(pairs): a key given again keeps its place and takes the new value
RECURSIVE SortedDict(_, _)
SortedDict(pairs, done) ==
    IF pairs = <<>> THEN done
    ELSE LET head == Head(pairs)
             same == {i \in DOMAIN done : PyEq(done[i].key, head.key)}
         IN  SortedDict(Tail(pairs),
                        IF same = {} THEN Append(done, head)
                        ELSE [i \in DOMAIN done |->
                                IF i \in same THEN [done[i] EXCEPT !.display = head.display]
                                ELSE done[i]])

\* dict([(six.text_type(key), key) for key in keys]): a later key wins
RECURSIVE StringsToValues(_, _)
StringsToValues(keys, done) ==
    IF keys = <<>> THEN done
    ELSE StringsToValues(Tail(keys), (text_type(Head(keys)) :> Head(keys)) @@ done)

\* ChoiceField.__init__(self, choices, **kwargs) for the class cls
ChoiceField__init__(cls, kwargs) ==
    LET given == kwargs["choices"]
        all_pairs == \A i \in DOMAIN given : given[i].pair
        choices ==
            SortedDict([i \in DOMAIN given |->
                            IF all_pairs THEN [key |-> given[i].key, display |-> given[i].display]
                            ELSE IF given[i].pair
                            THEN [key |-> TupleRepr(given[i]), display |-> TupleRepr(given[i])]
                            ELSE [key |-> given[i].key, display |-> given[i].key]],
                       <<>>)
        r == Field__init__(cls, Without(kwargs, {"choices"}))
    IN  IF r.out.kind # "return" THEN r
        ELSE [r EXCEPT !.self =
                Update(@, [choices |-> choices,
                           choice_strings_to_values |->
                                StringsToValues([i \in DOMAIN choices |-> choices[i].key], <<>>)])]

\* ChoiceField.to_internal_value(self, data)
ChoiceField_to_internal_value(self, data) ==
    IF text_type(data) \in DOMAIN self.choice_strings_to_values
    THEN Return(self.choice_strings_to_values[text_type(data)])
    ELSE fail(self, "invalid_choice", [input |-> data])

\* ChoiceField.to_representation(self, value): a missing key is a KeyError
ChoiceField_to_representation(self, value) ==
    IF text_type(value) \in DOMAIN self.choice_strings_to_values
    THEN Return(self.choice_strings_to_values[text_type(value)])
    ELSE Raise("KeyError", <<text_type(value)>>)

\* set(list)
PySet(list) == {list[i] : i \in DOMAIN list}

\* the list comprehension of MultipleChoiceField.to_internal_value keeping
\* the items as they were given
RECURSIVE ChoiceComprehension_unmapped(_, _, _)
ChoiceComprehension_unmapped(self, items, values) ==
    IF items = <<>> THEN Return(values)
    ELSE LET r == ChoiceField_to_internal_value(self, Head(items))
         IN  IF r.kind # "return" THEN r
             ELSE ChoiceComprehension_unmapped(self, Tail(items), Append(values, Head(items)))

\* the list comprehension of MultipleChoiceField.to_internal_value over the
\* items not yet visited: the first item that is no choice ends it
RECURSIVE ChoiceComprehension(_, _, _)
ChoiceComprehension(self, items, values) ==
    IF items = <<>> THEN Return(values)
    ELSE LET r == ChoiceField_to_internal_value(self, Head(items))
         IN  IF r.kind # "return" THEN r
             ELSE ChoiceComprehension(self, Tail(items), Append(values, r.value))

\* MultipleChoiceField.to_internal_value(self, data)
MultipleChoiceField_to_internal_value(self, data) ==
    IF data.py # "list"
    THEN fail(self, "not_a_list", [input_type |-> TypeName(data.v)])
    ELSE LET r == ChoiceComprehension(self, data.items, <<>>)
         IN  IF r.kind # "return" THEN r ELSE Return(PySet(r.value))

MaxChoices == 2
ChoiceItems == {Single("1"), Single("2"), Single("'1'"), Pair("1", "One"), Pair("2", "Two")}
ChoiceLists == UNION {[1..n -> ChoiceItems] : n \in 1..MaxChoices}
ChoiceClasses == {"ChoiceField", "MultipleChoiceField"}
ChoiceData == {"'1'", "1", "'2'", "2", "'3'", "3", "'abc'", "True"}
MaxSelected == 3
SelectedItems == {"'1'", "2", "'3'"}
MultipleChoiceData ==
    {PyList(items) : items \in UNION {[1..n -> SelectedItems] : n \in 0..MaxSelected}}
    \cup {PyScalar("'1'"), PyScalar("'abc'"), PyScalar("1"), PyScalar(NoneV)}

InitChoice ==
    /\ \E cls \in ChoiceClasses, choices \in ChoiceLists :
            field = ChoiceField__init__(cls, [choices |-> choices]).self
    /\ last = NoCall
    /\ calls = <<>>
    /\ serializer_field = NoneV
    /\ instance = NoInstance
    /\ container = EmptyDict

\* field.to_internal_value(data) on a single-choice field, the one call made
ChoiceToInternalValue(data) ==
    /\ last = NoCall
    /\ field.cls = "ChoiceField"
    /\ last' = Call("to_internal_value", field.cls, <<>>, data, "-",
                    ChoiceField_to_internal_value(field, data))
    /\ calls' = <<>>
    /\ UNCHANGED <<field, serializer_field, instance, container>>

\* field.to_representation(value) on a single-choice field, the one call made
ChoiceToRepresentation(value) ==
    /\ last = NoCall
    /\ field.cls = "ChoiceField"
    /\ last' = Call("to_representation", field.cls, <<>>, value, "-",
                    ChoiceField_to_representation(field, value))
    /\ calls' = <<>>
    /\ UNCHANGED <<field, serializer_field, instance, container>>

\* field.to_internal_value(data) on a multiple-choice field, the one call made
MultipleChoiceToInternalValue(data) ==
    /\ last = NoCall
    /\ field.cls = "MultipleChoiceField"
    /\ last' = Call("to_internal_value", field.cls, <<>>, data, "-",
                    MultipleChoiceField_to_internal_value(field, data))
    /\ calls' = <<>>
    /\ UNCHANGED <<field, serializer_field, instance, container>>

NextChoice ==
    \/ \E data \in ChoiceData : ChoiceToInternalValue(data)
    \/ \E value \in ChoiceData : ChoiceToRepresentation(value)
    \/ \E data \in MultipleChoiceData : MultipleChoiceToInternalValue(data)

SpecChoice == InitChoice /\ [][NextChoice]_vars

\* the text a value is looked up by: a string is its own text, a number is
\* printed
LookupText(v) == IF IsStr(v) THEN CHOOSE t \in StrTexts : Quote(t) = v ELSE v
IsChoice(fld, v) == LookupText(v) \in DOMAIN fld.choice_strings_to_values
NativeChoice(fld, v) == fld.choice_strings_to_values[LookupText(v)]
InvalidChoice(v) ==
    Raise("ValidationError", <<("'" \o LookupText(v)) \o "' is not a valid choice.">>)

\* C19: on a single-choice field to_internal_value and to_representation
\* both look their argument up by its text: on a hit both return the native
\* choice value, on a miss both fail with the 'invalid_choice' validation
\* error.
C19_ChoiceLookupBothWays ==
    (field.cls = "ChoiceField" /\ last.op \in {"to_internal_value", "to_representation"}) =>
        IF IsChoice(field, last.data)
        THEN last.out = Return(NativeChoice(field, last.data))
        ELSE last.out = InvalidChoice(last.data)

\* C20: on a multiple-choice field to_internal_value of a list whose items are
\* all choices returns the set of their native values, the same for every
\* list with the same items in another order or repeated; a list with an item
\* that is no choice fails 'invalid_choice'; an input that is no list (a bare
\* string, a number, None) fails 'not_a_list'.
C20_MultipleChoiceIsASet ==
    (field.cls = "MultipleChoiceField" /\ last.op = "to_internal_value") =>
        IF last.data.py # "list"
        THEN /\ last.out.kind = "ValidationError"
             /\ last.out.messages =
                    <<("Expected a list of items but got type '" \o TypeName(last.data.v)) \o "'">>
        ELSE LET items == last.data.items
                 invalid == {i \in DOMAIN items : ~IsChoice(field, items[i])}
             IN  IF invalid = {}
                 THEN /\ last.out.kind = "return"
                      /\ last.out.value = {NativeChoice(field, items[i]) : i \in DOMAIN items}
                      /\ \A other \in MultipleChoiceData :
                            (other.py = "list" /\ PySet(other.items) = PySet(items)) =>
                                MultipleChoiceField_to_internal_value(field, other) = last.out
                 ELSE \E i \in invalid : last.out = InvalidChoice(items[i])

\* ['1', 2, '1'] on the choices (1, 'One'), (2, 'Two') gives {1, 2}
C20_Witness ==
    /\ field.cls = "MultipleChoiceField"
    /\ last.op = "to_internal_value"
    /\ field.choice_strings_to_values = ("1" :> "1") @@ ("2" :> "2")
    /\ last.data = PyList(<<"'1'", "2", "'1'">>)
    /\ last.out.kind = "return"
    /\ last.out.value = {"1", "2"}

-----------------------------------------------------------------------------
(* Parsing what was formatted: to_internal_value and to_representation of  *)
(* the scalar fields, applied in turn.                                     *)

\* bool(value)
bool(value) == IF value \in {NoneV, "''", "0", "0.0", "False"} THEN "False" ELSE "True"

\* BooleanField.to_representation(self, value)
BooleanField_to_representation(self, value) ==
    IF PyIn(value, TRUE_VALUES) THEN Return("True")
    ELSE IF PyIn(value, FALSE_VALUES) THEN Return("False")
    ELSE Return(bool(value))

\* NullBooleanField.to_representation(self, value)
NullBooleanField_to_representation(self, value) ==
    IF PyIn(value, NULL_VALUES) THEN Return(NoneV)
    ELSE IF PyIn(value, TRUE_VALUES) THEN Return("True")
    ELSE IF PyIn(value, FALSE_VALUES) THEN Return("False")
    ELSE Return(bool(value))

\* IntegerField.to_representation(self, value): int(value)
IntegerField_to_representation(self, value) ==
    IF IsIntText(text_type(value)) THEN Return(ToString(int(text_type(value))))
    ELSE Raise("ValueError", <<>>)

\* self.to_internal_value(data), dispatched on the class of self
ToInternalValueOf(self, data) ==
    CASE self.cls = "DecimalField" -> DecimalField_to_internal_value(self, data)
      [] self.cls = "ChoiceField" -> ChoiceField_to_internal_value(self, data)
      [] OTHER -> to_internal_value(self, data)

\* self.to_representation(value), dispatched on the class of self
ToRepresentationOf(self, value) ==
    CASE self.cls = "DecimalField" -> DecimalField_to_representation(self, value)
      [] self.cls = "ChoiceField" -> ChoiceField_to_representation(self, value)
      [] self.cls = "BooleanField" -> BooleanField_to_representation(self, value)
      [] self.cls = "NullBooleanField" -> NullBooleanField_to_representation(self, value)
      [] self.cls = "IntegerField" -> IntegerField_to_representation(self, value)
      [] self.cls = "CharField" -> Return(Quote(text_type(value)))
      [] OTHER -> Raise("NotImplementedError", <<"to_representation() must be implemented.">>)

\* to_internal_value(x), then to_representation of its result
ParseThenFormat(self, x) ==
    LET parsed == ToInternalValueOf(self, x)
    IN  IF parsed.kind # "return" THEN <<parsed>>
        ELSE <<parsed, ToRepresentationOf(self, parsed.value)>>

\* the outcomes of parse(x), format(..), parse(..), format(..), parse(..),
\* up to the first that raises
PassesOver(self, x) ==
    LET first == ParseThenFormat(self, x)
        second == ParseThenFormat(self, first[2].value)
    IN  IF Len(first) < 2 \/ first[2].kind # "return" THEN first
        ELSE IF Len(second) < 2 \/ second[2].kind # "return" THEN first \o second
        ELSE (first \o second) \o <<ToInternalValueOf(self, second[2].value)>>

ScalarFields ==
    {Construct(cls, <<>>).self : cls \in {"BooleanField", "NullBooleanField", "IntegerField",
                                          "CharField"}}
    \cup {ChoiceField__init__("ChoiceField", [choices |-> choices]).self : choices \in ChoiceLists}
    \cup {DecimalField__init__(kwargs).self :
            kwargs \in {c \in DecimalConfigs : c.decimal_places <= c.max_digits}}

BooleanData == {"'t'", "'True'", "'1'", "1", "0", "0.0", "True", "False", "'maybe'", "''", NoneV}
IntegerData == {"'01'", "'1'", "1", "3", "'abc'", "True"}
CharData == {"'abc'", "''", "1", "True"}
InputsOf(fld) ==
    CASE fld.cls = "DecimalField" -> DecimalLiterals
      [] fld.cls = "ChoiceField" -> ChoiceData
      [] fld.cls = "IntegerField" -> IntegerData
      [] fld.cls = "CharField" -> CharData
      [] OTHER -> BooleanData

InitRoundTrip ==
    /\ field \in ScalarFields
    /\ last = NoCall
    /\ calls = <<>>
    /\ serializer_field = NoneV
    /\ instance = NoInstance
    /\ container = EmptyDict

\* the one series of calls made on the field, starting from data; calls
\* holds the outcome of each
RoundTrip(data) ==
    /\ last = NoCall
    /\ last' = Call("round_trip", field.cls, <<>>, data, "-", ToInternalValueOf(field, data))
    /\ calls' = PassesOver(field, data)
    /\ UNCHANGED <<field, serializer_field, instance, container>>

NextRoundTrip == \E data \in InputsOf(field) : RoundTrip(data)

SpecRoundTrip == InitRoundTrip /\ [][NextRoundTrip]_vars

\* C16: for every input x that to_internal_value accepts, to_representation
\* of the result does not fail, its output is accepted by to_internal_value,
\* and a further pass changes nothing: parse(format(parse(format(parse(x)))))
\* = parse(format(parse(x))).
C16_ParseFormatStable ==
    (last.op = "round_trip" /\ last.out.kind = "return") =>
        /\ Len(calls) = 5
        /\ \A i \in DOMAIN calls : calls[i].kind = "return"
        /\ calls[5].value = calls[3].value

-----------------------------------------------------------------------------
(* DateTimeField and DateField.  A value handed to to_internal_value is a  *)
(* record [type, shape, month, day, hour, aware, offset]: a native         *)
(* datetime or date, a number, or a text of one of the shapes              *)
(*   iso        2021-MM-DDThh:00 with no offset, Z, +01:00 or -01:00       *)
(*   iso_space  2021-MM-DD hh:00                                           *)
(*   iso_date   2021-MM-DD                                                 *)
(*   slash      NN/NN/2021 (month holds the first number, day the second)  *)
(*   junk       not-a-date                                                 *)
(* A timezone is a record [name, offset]; offset counts hours east of UTC. *)

ISO_8601 == "iso-8601"

NoTimezone == [name |-> "None", offset |-> 0]
UTC == [name |-> "UTC", offset |-> 0]
CET == [name |-> "CET", offset |-> 1]

Moment(type, shape, month, day, hour, aware, offset) ==
    [type |-> type, shape |-> shape, month |-> month, day |-> day, hour |-> hour,
     aware |-> aware, offset |-> offset]
datetime(month, day, hour, aware, offset) ==
    Moment("datetime", "-", month, day, hour, aware, offset)
date(month, day) == Moment("date", "-", month, day, 0, FALSE, 0)
Text(shape, month, day, hour, aware, offset) ==
    Moment("str", shape, month, day, hour, aware, offset)
\* the None a parser returns for a text that is not of its form
NoMatch == Moment("None", "-", 0, 0, 0, FALSE, 0)

\* str.lower() on the formats used
lower(format) == IF format = "ISO-8601" THEN "iso-8601" ELSE format

\* django.utils.dateparse.parse_datetime(value)
parse_datetime(value) ==
    IF value.type # "str" THEN Raise("TypeError", <<>>)
    ELSE IF value.shape \notin {"iso", "iso_space"} THEN Return(NoMatch)
    ELSE IF value.month > 12 THEN Raise("ValueError", <<>>)
    ELSE Return(datetime(value.month, value.day, value.hour, value.aware, value.offset))

\* django.utils.dateparse.parse_date(value)
parse_date(value) ==
    IF value.type # "str" THEN Raise("TypeError", <<>>)
    ELSE IF value.shape # "iso_date" THEN Return(NoMatch)
    ELSE IF value.month > 12 THEN Raise("ValueError", <<>>)
    ELSE Return(date(value.month, value.day))

\* datetime.datetime.strptime(value, format)
strptime(value, format) ==
    IF value.type # "str" THEN Raise("TypeError", <<>>)
    ELSE IF format = "%Y-%m-%d %H:%M" /\ value.shape = "iso_space" /\ value.month <= 12
    THEN Return(datetime(value.month, value.day, value.hour, FALSE, 0))
    ELSE IF format = "%d/%m/%Y" /\ value.shape = "slash" /\ value.day <= 12
    THEN Return(datetime(value.day, value.month, 0, FALSE, 0))
    ELSE IF format = "%m/%d/%Y" /\ value.shape = "slash" /\ value.month <= 12
    THEN Return(datetime(value.month, value.day, 0, FALSE, 0))
    ELSE Raise("ValueError", <<>>)

\* humanize_datetime.datetime_formats / date_formats: the formats in a
\* readable form, separated by commas
Humanized(format) ==
    CASE lower(format) = ISO_8601 -> "YYYY-MM-DDThh:mm[:ss[.uuuuuu]][+HH:MM|-HH:MM|Z]"
      [] format = "%Y-%m-%d %H:%M" -> "YYYY-MM-DD hh:mm"
      [] format = "%d/%m/%Y" -> "DD/MM/YYYY"
      [] format = "%m/%d/%Y" -> "MM/DD/YYYY"
      [] OTHER -> format
RECURSIVE datetime_formats(_)
datetime_formats(formats) ==
    IF formats = <<>> THEN ""
    ELSE IF Len(formats) = 1 THEN Humanized(Head(formats))
    ELSE (Humanized(Head(formats)) \o ", ") \o datetime_formats(Tail(formats))

\* the class attribute default_timezone under the settings in force
class_default_timezone(settings) == IF settings.USE_TZ THEN settings.TIME_ZONE ELSE NoTimezone

\* DateTimeField.__init__(self, format, input_formats, default_timezone, **kwargs)
DateTimeField__init__(kwargs, settings) ==
    LET r == Field__init__("DateTimeField",
                           Without(kwargs, {"format", "input_formats", "default_timezone"}))
    IN  IF r.out.kind # "return" THEN r
        ELSE [r EXCEPT !.self =
                Update(@, [format |-> Get(kwargs, "format", ISO_8601),
                           input_formats |-> Get(kwargs, "input_formats", <<ISO_8601>>),
                           default_timezone |->
                                IF Get(kwargs, "default_timezone", NoTimezone) # NoTimezone
                                THEN kwargs["default_timezone"]
                                ELSE class_default_timezone(settings)])]

\* DateField.__init__(self, format, input_formats, **kwargs)
DateField__init__(kwargs) ==
    LET r == Field__init__("DateField", Without(kwargs, {"format", "input_formats"}))
    IN  IF r.out.kind # "return" THEN r
        ELSE [r EXCEPT !.self =
                Update(@, [format |-> Get(kwargs, "format", ISO_8601),
                           input_formats |-> Get(kwargs, "input_formats", <<ISO_8601>>)])]

\* timezone.make_aware(value, tz)
make_aware(value, tz) == [value EXCEPT !.aware = TRUE, !.offset = tz.offset]

\* timezone.make_naive(value, tz): the wall clock of tz at the same instant
make_naive(value, tz) ==
    LET hours == (value.day * 24 + value.hour) - value.offset + tz.offset
    IN  [value EXCEPT !.day = hours \div 24, !.hour = hours % 24,
                      !.aware = FALSE, !.offset = 0]

\* enforce_timezone returning the value as it came
enforce_timezone_unchanged(self, value) == value

\* DateTimeField.enforce_timezone(self, value)
enforce_timezone(self, value) ==
    IF self.default_timezone # NoTimezone /\ ~value.aware
    THEN make_aware(value, self.default_timezone)
    ELSE IF self.default_timezone = NoTimezone /\ value.aware
    THEN make_naive(value, UTC)
    ELSE value

\* the attempt made with one format: the parser called, and the value
\* returned when it parsed
Attempt(self, value, format) ==
    LET iso == lower(format) = ISO_8601
        parsed == IF ~iso THEN strptime(value, format)
                  ELSE IF self.cls = "DateTimeField" THEN parse_datetime(value)
                  ELSE parse_date(value)
    IN  [call |-> IF ~iso THEN "strptime " \o format
                  ELSE IF self.cls = "DateTimeField" THEN "parse_datetime" ELSE "parse_date",
         found |-> parsed.kind = "return" /\ parsed.value.type # "None",
         result |-> IF parsed.kind # "return" THEN NoMatch
                    ELSE IF self.cls = "DateTimeField" THEN enforce_timezone(self, parsed.value)
                    ELSE IF iso THEN parsed.value
                    ELSE date(parsed.value.month, parsed.value.day)]

\* the for loop over input_formats trying the last format first
RECURSIVE InputFormatsLoop_last_first(_, _, _, _)
InputFormatsLoop_last_first(self, value, formats, called) ==
    IF formats = <<>>
    THEN [out |-> fail(self, "invalid", [format |-> datetime_formats(self.input_formats)]),
          calls |-> called]
    ELSE LET a == Attempt(self, value, formats[Len(formats)])
         IN  IF a.found THEN [out |-> Return(a.result), calls |-> Append(called, a.call)]
             ELSE InputFormatsLoop_last_first(self, value, SubSeq(formats, 1, Len(formats) - 1),
                                              Append(called, a.call))

\* the for loop over the input formats not yet tried, and the two lines
\* after it
RECURSIVE InputFormatsLoop(_, _, _, _)
InputFormatsLoop(self, value, formats, called) ==
    IF formats = <<>>
    THEN [out |-> fail(self, "invalid", [format |-> datetime_formats(self.input_formats)]),
          calls |-> called]
    ELSE LET a == Attempt(self, value, Head(formats))
         IN  IF a.found THEN [out |-> Return(a.result), calls |-> Append(called, a.call)]
             ELSE InputFormatsLoop(self, value, Tail(formats), Append(called, a.call))

\* DateTimeField.to_internal_value(self, value)
DateTimeField_to_internal_value(self, value) ==
    IF value.type = "date" THEN Quiet(fail(self, "date", <<>>), NoneV)
    ELSE IF value.type = "datetime" THEN Quiet(Return(enforce_timezone(self, value)), NoneV)
    ELSE InputFormatsLoop(self, value, self.input_formats, <<>>) @@ [injected |-> NoneV]

\* DateField.to_internal_value(self, value)
DateField_to_internal_value(self, value) ==
    IF value.type = "datetime" THEN Quiet(fail(self, "datetime", <<>>), NoneV)
    ELSE IF value.type = "date" THEN Quiet(Return(value), NoneV)
    ELSE InputFormatsLoop(self, value, self.input_formats, <<>>) @@ [injected |-> NoneV]

MaxFormats == 3
InputFormats == {ISO_8601, "ISO-8601", "%Y-%m-%d %H:%M", "%d/%m/%Y", "%m/%d/%Y"}
FormatLists == UNION {[1..n -> InputFormats] : n \in 0..MaxFormats}
Timezones == {NoTimezone, UTC, CET}
Settings == {[USE_TZ |-> FALSE, TIME_ZONE |-> UTC], [USE_TZ |-> TRUE, TIME_ZONE |-> CET]}
Hours == {10, 23}
Offsets == {0, 1, -1}
Numbers == {1, 2, 13}
Moments ==
    {datetime(5, 1, hour, FALSE, 0) : hour \in Hours}
    \cup {datetime(5, 1, hour, TRUE, offset) : hour \in Hours, offset \in Offsets}
    \cup {date(5, 1), Moment("int", "-", 0, 0, 0, FALSE, 0)}
    \cup {Text("iso", month, 1, hour, FALSE, 0) : month \in {5, 13}, hour \in Hours}
    \cup {Text("iso", 5, 1, hour, TRUE, offset) : hour \in Hours, offset \in Offsets}
    \cup {Text("iso_space", 5, 1, hour, FALSE, 0) : hour \in Hours}
    \cup {Text("iso_date", month, 1, 0, FALSE, 0) : month \in {5, 13}}
    \cup {Text("slash", first, second, 0, FALSE, 0) : first \in Numbers, second \in Numbers}
    \cup {Text("junk", 0, 0, 0, FALSE, 0)}

InitTemporal ==
    /\ \/ \E formats \in FormatLists, tz \in Timezones, settings \in Settings :
            field = DateTimeField__init__([input_formats |-> formats, default_timezone |-> tz],
                                          settings).self
       \/ \E formats \in FormatLists :
            field = DateField__init__([input_formats |-> formats]).self
    /\ last = NoCall
    /\ calls = <<>>
    /\ serializer_field = NoneV
    /\ instance = NoInstance
    /\ container = EmptyDict

\* field.to_internal_value(value), the one call made on the field
TemporalToInternalValue(value) ==
    /\ last = NoCall
    /\ LET r == IF field.cls = "DateTimeField"
                THEN DateTimeField_to_internal_value(field, value)
                ELSE DateField_to_internal_value(field, value)
       IN  /\ last' = Call("to_internal_value", field.cls, <<>>, value, "-", r.out)
           /\ calls' = r.calls
    /\ UNCHANGED <<field, serializer_field, instance, container>>

NextTemporal == \E value \in Moments : TemporalToInternalValue(value)

SpecTemporal == InitTemporal /\ [][NextTemporal]_vars

\* the parser a format is tried with: the ISO parser of the class for the
\* ISO-8601 marker, pattern parsing for any other format
ParserFor(fld, format) ==
    IF format \in {"iso-8601", "ISO-8601"}
    THEN (IF fld.cls = "DateTimeField" THEN "parse_datetime" ELSE "parse_date")
    ELSE "strptime " \o format
\* the positions of the configured formats that parse the text
ParsingFormats(fld, text) ==
    {i \in DOMAIN fld.input_formats : Attempt(fld, text, fld.input_formats[i]).found}
WrongFormat(fld) ==
    IF fld.cls = "DateTimeField"
    THEN "Datetime has wrong format. Use one of these formats instead: "
    ELSE "Date has wrong format. Use one of these formats instead: "

\* C17: to_internal_value of a text tries the input formats in list order,
\* the ISO-8601 marker with the ISO parser and any other format with pattern
\* parsing, and returns the result of the first format that parses, trying
\* no format after it; when no format parses it has tried every format and
\* fails 'invalid' with a message listing all the configured formats.
C17_FirstFormatWins ==
    (last.op = "to_internal_value" /\ last.data.type = "str") =>
        LET formats == field.input_formats
            parsing == ParsingFormats(field, last.data)
            first == CHOOSE i \in parsing : \A j \in parsing : i <= j
        IN  IF parsing = {}
            THEN /\ last.out.kind = "ValidationError"
                 /\ last.out.messages = <<WrongFormat(field) \o datetime_formats(formats)>>
                 /\ calls = [i \in DOMAIN formats |-> ParserFor(field, formats[i])]
            ELSE /\ last.out.kind = "return"
                 /\ last.out.value = Attempt(field, last.data, formats[first]).result
                 /\ calls = [i \in 1..first |-> ParserFor(field, formats[i])]

\* 01/02/2021 is the first of February for the first of two formats that
\* both parse it, and the second format is not tried
C17_Witness ==
    /\ last.op = "to_internal_value"
    /\ field.cls = "DateField"
    /\ field.input_formats = <<ISO_8601, "%d/%m/%Y", "%m/%d/%Y">>
    /\ last.data = Text("slash", 1, 2, 0, FALSE, 0)
    /\ last.out.kind = "return"
    /\ last.out.value = date(2, 1)
    /\ calls = <<"parse_date", "strptime %d/%m/%Y">>

\* the date-time a native value or an ISO text states, before the timezone
\* is normalised
Stated(data) == datetime(data.month, data.day, data.hour, data.aware, data.offset)
States(data) == data.type = "datetime" \/ (data.type = "str" /\ data.shape \in {"iso", "iso_space"})
\* hours since the start of the month, in UTC
Instant(value) == (value.day * 24 + value.hour) - value.offset

\* C18: a value DateTimeField.to_internal_value returns is aware exactly when
\* the field has a default timezone; with a default timezone a naive input is
\* given that zone and an aware input is returned unchanged; with none an
\* aware input becomes the naive UTC wall clock of the same instant and a
\* naive input is returned unchanged.
C18_AwareIffDefaultTimezone ==
    (last.op = "to_internal_value" /\ field.cls = "DateTimeField" /\ last.out.kind = "return") =>
        LET value == last.out.value
            stated == Stated(last.data)
        IN  /\ value.aware <=> field.default_timezone # NoTimezone
            /\ States(last.data) =>
                    IF field.default_timezone # NoTimezone
                    THEN IF stated.aware THEN value = stated
                         ELSE value = [stated EXCEPT !.aware = TRUE,
                                                     !.offset = field.default_timezone.offset]
                    ELSE IF stated.aware
                         THEN /\ Instant(value) = Instant(stated)
                              /\ value.offset = 0
                              /\ value.month = stated.month
                         ELSE value = stated

\* 23:00-01:00 on the first, parsed from ISO text by a field without a
\* default timezone, is the naive 00:00 of the second
C18_Witness ==
    /\ last.op = "to_internal_value"
    /\ field.cls = "DateTimeField"
    /\ field.default_timezone = NoTimezone
    /\ last.data = Text("iso", 5, 1, 23, TRUE, -1)
    /\ last.out.kind = "return"
    /\ last.out.value = datetime(5, 2, 0, FALSE, 0)

-----------------------------------------------------------------------------
(* BooleanField.to_internal_value over the tokens of both sets, values     *)
(* equal to a token, values equal to none, and values without a hash.      *)

BooleanInvalidArgs == {<<>>, [error_messages |-> [invalid |-> <<"Not a boolean.">>]]}
BooleanFields ==
    {r.self : r \in {c \in {BooleanField__init__(a @@ b @@ c) :
                                a \in RequiredArgs, b \in DefaultArgs, c \in BooleanInvalidArgs} :
                          c.out.kind = "return"}}
BooleanInputs ==
    TRUE_VALUES \cup FALSE_VALUES \cup NULL_VALUES
    \cup {"1.0", "2", "'maybe'", "'abc'", "'yes'", "'2'"} \cup Unhashable

InitBoolean ==
    /\ field \in BooleanFields
    /\ last = NoCall
    /\ calls = <<>>
    /\ serializer_field = NoneV
    /\ instance = NoInstance
    /\ container = EmptyDict

BooleanToInternalValue(data) ==
    /\ last' = Call("to_internal_value", field.cls, <<>>, data, "-",
                    to_internal_value(field, data))
    /\ UNCHANGED <<field, calls, serializer_field, instance, container>>

NextBoolean == \E data \in BooleanInputs : BooleanToInternalValue(data)

SpecBoolean == InitBoolean /\ [][NextBoolean]_vars

\* C21: BooleanField.to_internal_value returns True for exactly the inputs in
\* TRUE_VALUES, False for exactly the inputs in FALSE_VALUES, and fails with
\* 'invalid' for every other input; no input is in both sets.  An input is in
\* a set when it equals one of its tokens (1.0 equals 1).
C21_BooleanByTokenSets ==
    (last.op = "to_internal_value" /\ field.cls = "BooleanField") =>
        LET truthy == PyIn(last.data, TRUE_VALUES)
            falsy == PyIn(last.data, FALSE_VALUES)
        IN  /\ ~(truthy /\ falsy)
            /\ truthy => last.out = Return("True")
            /\ falsy => last.out = Return("False")
            /\ ~(truthy \/ falsy) => last.out = fail(field, "invalid", [input |-> last.data])

-----------------------------------------------------------------------------
(* Concurrent run_validation calls.  Each thread runs run_validation on    *)
(* its own bound field; field and last are functions of the thread.  The   *)
(* context-requiring validator is one object, carried by every field       *)
(* whose list names it, and serializer_field is its attribute.  A thread   *)
(* can be preempted between the store of line 272 and the call of line     *)
(* 274, so the loop of run_validators takes two steps for each validator.  *)

Threads == {"t1", "t2"}
MaxShared == 2
SharedLibrary == {Validator("a"), Validator("ctx")}
SharedLists == UNION {[1..n -> SharedLibrary] : n \in 0..MaxShared}
SharedNames == {"age", "score"}
SharedFields ==
    {bind(Construct("IntegerField", [validators |-> validators]).self, name, "top_full").self :
        validators \in SharedLists, name \in SharedNames}
Payloads == {"1", "2", NoneV}

Pending == [kind |-> "pending", value |-> "-", messages |-> <<>>]
Idle == [pc |-> "idle", data |-> "-", value |-> "-", rest |-> <<>>, errors |-> <<>>,
         out |-> Pending, saw |-> {}]

\* run_validation up to line 259: the outcome, and whether line 260 is next
BeforeValidators(self, data) ==
    LET bare == [self EXCEPT !.validators = <<>>]
        r == run_validation("field", bare, bare, data, NoneV)
    IN  [out |-> r.out, goes_on |-> r.calls = <<"to_internal_value", "validate">>]

\* what run_validation(data) on self gives when no other call runs
Alone(self, data) ==
    LET b == BeforeValidators(self, data)
        r == RunValidatorsLoop(self.field_name, self.validators, b.out.value, <<>>, <<>>, NoneV)
    IN  IF ~b.goes_on THEN b.out
        ELSE IF r.errors # <<>> THEN Raise("ValidationError", r.errors)
        ELSE b.out

InitConcurrent ==
    /\ field \in {f \in [Threads -> SharedFields] :
                    f["t1"].field_name = f["t2"].field_name => f["t1"] = f["t2"]}
    /\ last = [t \in Threads |-> Idle]
    /\ calls = <<>>
    /\ serializer_field = NoneV
    /\ instance = NoInstance
    /\ container = EmptyDict

\* lines 244-260: the thread enters run_validation and reaches the loop
EnterRunValidation(t, data) ==
    /\ last[t].pc = "idle"
    /\ LET b == BeforeValidators(field[t], data)
       IN  last' = [last EXCEPT ![t] =
                IF b.goes_on
                THEN [@ EXCEPT !.pc = "test", !.data = data, !.value = b.out.value,
                               !.rest = field[t].validators]
                ELSE [@ EXCEPT !.pc = "done", !.data = data, !.out = b.out]]
    /\ UNCHANGED <<field, calls, serializer_field, instance, container>>

\* lines 270-272: the next validator is taken and, when it requires
\* context, the field is stored in it
InjectField(t) ==
    /\ last[t].pc = "test"
    /\ last[t].rest # <<>>
    /\ serializer_field' = IF requires_context(Head(last[t].rest))
                           THEN field[t].field_name ELSE serializer_field
    /\ last' = [last EXCEPT ![t].pc = "call"]
    /\ UNCHANGED <<field, calls, instance, container>>

\* lines 273-276: the validator is called and reads what is stored in it
CallValidator(t) ==
    /\ last[t].pc = "call"
    /\ LET validator == Head(last[t].rest)
       IN  last' = [last EXCEPT ![t] =
                [@ EXCEPT !.pc = "test",
                          !.rest = Tail(@),
                          !.errors = @ \o ValidatorMessages(validator, last[t].value,
                                                            serializer_field),
                          !.saw = IF requires_context(validator)
                                  THEN @ \cup {serializer_field} ELSE @]]
    /\ UNCHANGED <<field, calls, serializer_field, instance, container>>

\* lines 277-278 and 261-262: the loop is over
LeaveRunValidation(t) ==
    /\ last[t].pc = "test"
    /\ last[t].rest = <<>>
    /\ last' = [last EXCEPT ![t] =
            [@ EXCEPT !.pc = "done",
                      !.out = IF last[t].errors # <<>>
                              THEN Raise("ValidationError", last[t].errors)
                              ELSE Return(last[t].value)]]
    /\ UNCHANGED <<field, calls, serializer_field, instance, container>>

NextConcurrent ==
    \E t \in Threads :
        \/ \E data \in Payloads : EnterRunValidation(t, data)
        \/ InjectField(t)
        \/ CallValidator(t)
        \/ LeaveRunValidation(t)

SpecConcurrent == InitConcurrent /\ [][NextConcurrent]_vars

\* C22: in any interleaving of run_validation calls on bound fields, each
\* call returns or raises exactly what it would when run alone, and each
\* context-requiring validator sees the field that invoked it.
C22_CallsDoNotInterfere ==
    \A t \in Threads :
        /\ last[t].saw \subseteq {field[t].field_name}
        /\ last[t].pc = "done" => last[t].out = Alone(field[t], last[t].data)

-----------------------------------------------------------------------------
(* Field.get_value.  A payload is a record [html, items]: html tells an    *)
(* HTML-form payload from a structured one, items maps the names present   *)
(* to their values.                                                        *)

\* the class attribute default_empty_html
default_empty_html(cls) ==
    CASE cls = "BooleanField" -> "False"
      [] cls = "MultipleChoiceField" -> "[]"
      [] OTHER -> empty

\* html.is_html_input(dictionary)
is_html_input(dictionary) == dictionary.html

\* dictionary.get(key, default)
DictGet(dictionary, key, default) ==
    IF key \in DOMAIN dictionary.items THEN dictionary.items[key] ELSE default

\* get_value handing the value of an HTML form on as it is
get_value_as_submitted(self, dictionary) ==
    IF is_html_input(dictionary)
    THEN Return(DictGet(dictionary, self.field_name, "''"))
    ELSE Return(DictGet(dictionary, self.field_name, empty))

\* Field.get_value(self, dictionary)
get_value(self, dictionary) ==
    IF is_html_input(dictionary)
    THEN LET ret == DictGet(dictionary, self.field_name, "''")
         IN  Return(IF PyEq(ret, "''") THEN default_empty_html(self.cls) ELSE ret)
    ELSE Return(DictGet(dictionary, self.field_name, empty))

PayloadNames == {"age", "first_name"}
PayloadValues == {"''", "'abc'", "'1'", "1", NoneV}
Dictionaries ==
    {[html |-> html, items |-> items] :
        html \in BOOLEAN,
        items \in UNION {[names -> PayloadValues] : names \in SUBSET PayloadNames}}
ValueClasses == {"Field", "BooleanField", "NullBooleanField", "CharField", "IntegerField",
                 "ChoiceField", "MultipleChoiceField"}
ValueFields ==
    {bind(IF cls \in {"ChoiceField", "MultipleChoiceField"}
          THEN ChoiceField__init__(cls, [choices |-> <<Single("'abc'")>>]).self
          ELSE Construct(cls, <<>>).self,
          name, "top_full").self :
        cls \in ValueClasses, name \in PayloadNames}

InitGetValue ==
    /\ field \in ValueFields
    /\ last = NoCall
    /\ calls = <<>>
    /\ serializer_field = NoneV
    /\ instance = NoInstance
    /\ container = EmptyDict

GetValue(dictionary) ==
    /\ last' = Call("get_value", field.cls, <<>>, dictionary, "-", get_value(field, dictionary))
    /\ UNCHANGED <<field, calls, serializer_field, instance, container>>

NextGetValue == \E dictionary \in Dictionaries : GetValue(dictionary)

SpecGetValue == InitGetValue /\ [][NextGetValue]_vars

EmptySentinel(cls) ==
    CASE cls = "BooleanField" -> "False"
      [] cls = "MultipleChoiceField" -> "[]"
      [] OTHER -> empty

-----------------------------------------------------------------------------
(* DecimalField with max_digits = decimal_places *)

\* the value of a finite decimal is below 1 in magnitude
BelowOne(value) ==
    LET coefficient == DigitsToNat(value.digits)
    IN  \/ coefficient = 0
        \/ value.exponent < 0 /\ coefficient < Pow10(0 - value.exponent)

\* the decimal places a finite decimal is written with
PlacesOf(value) == IF value.exponent < 0 THEN 0 - value.exponent ELSE 0

\* C24: with max_digits = decimal_places = n, to_internal_value accepts every
\* value below 1 in magnitude that has at most n decimal places (a zero
\* before the point is not counted as a digit), and rejects every value with
\* a non-zero digit before the point with 'max_whole_digits' or 'max_digits'.
C24_LeadingZeroNotCounted ==
    (/\ last.op = "to_internal_value"
     /\ field.cls = "DecimalField"
     /\ field.max_digits = field.decimal_places
     /\ last.data.special = "finite") =>
        LET value == Decimal(last.data)
            n == ToString(field.max_digits)
        IN  /\ (BelowOne(value) /\ PlacesOf(value) <= field.max_digits) =>
                    last.out = Return(value)
            /\ ~BelowOne(value) =>
                    last.out \in {fail(field, "max_digits", [max_digits |-> n]),
                                  fail(field, "max_whole_digits", [max_whole_digits |-> "0"])}

-----------------------------------------------------------------------------
(* What bind leaves in the field, against what the constructor was given.  *)
(* calls is the trace of the calls made on the field: the constructor      *)
(* call first, then each bind.                                             *)

MaxBinds == 2
ConfiguredSources == {<<>>, [source |-> "a.b"], [source |-> "*"], [source |-> "age"]}

InitSource ==
    /\ \E cls \in BoundClasses, a \in ConfiguredSources, b \in LabelArgs :
            LET r == Construct(cls, a @@ b)
            IN  /\ field = r.self
                /\ calls = <<Call("__init__", cls, a @@ b, "-", "-", r.out)>>
    /\ last = NoCall
    /\ serializer_field = NoneV
    /\ instance = NoInstance
    /\ container = EmptyDict

\* field.bind(field_name, parent), recorded in the trace
BindRecorded(field_name, parent) ==
    /\ Len(calls) <= MaxBinds
    /\ LET r == bind(field, field_name, parent)
           call == Call("bind", field.cls, <<>>, field_name, parent, r.out)
       IN  /\ field' = r.self
           /\ last' = call
           /\ calls' = Append(calls, call)
    /\ UNCHANGED <<serializer_field, instance, container>>

NextSource == \E field_name \in BindNames, parent \in DOMAIN Parents : BindRecorded(field_name, parent)

SpecSource == InitSource /\ [][NextSource]_vars

\* C25: after bind(field_name, parent) succeeds, source is the source given
\* to the constructor or, when none was given, field_name; source_attrs is
\* empty exactly when source is '*' and otherwise the steps of source in
\* order; a label given to the constructor is kept and an unset label is
\* derived from field_name.  bind fails when the source given to the
\* constructor equals field_name.
C25_BindFixesSourceAndLabel ==
    last.op = "bind" =>
        LET kwargs == calls[1].kwargs
            field_name == last.data
        IN  /\ last.out.kind = "return" =>
                /\ field.source = Get(kwargs, "source", field_name)
                /\ field.source_attrs = <<>> <=> field.source = "*"
                /\ field.source # "*" => Dotted(field.source_attrs) = field.source
                /\ field.label = Get(kwargs, "label", Capitalize(field_name))
            /\ ("source" \in DOMAIN kwargs /\ kwargs["source"] = field_name) =>
                    last.out.kind = "AssertionError"

-----------------------------------------------------------------------------
(* Validator lists as objects.  container holds the lists that outlive a   *)
(* constructor call: the list the caller built (caller) with its content   *)
(* when it was built (original), and the class attribute                   *)
(* Field.default_validators.  field is the sequence of the fields          *)
(* constructed; each refers to the list its attribute validators is        *)
(* bound to: the caller's list, or a list of its own.                      *)

EmailValidator(message) == [cls |-> "EmailValidator", limit |-> 0, message |-> message]

\* EmailField.__init__(self, **kwargs)
EmailField__init__(kwargs) ==
    LET r == CharField__init__(kwargs)
        messages == Update(MergeMessages(Reversed(Mro("EmailField")), <<>>),
                           Get(kwargs, "error_messages", <<>>))
    IN  IF r.out.kind # "return" THEN r
        ELSE [r EXCEPT !.self.cls = "EmailField",
                       !.self.error_messages = messages,
                       !.self.validators = Append(@, EmailValidator(Join(messages["invalid"])))]

ConstructWithValidators(cls, kwargs) ==
    IF cls = "EmailField" THEN EmailField__init__(kwargs) ELSE Construct(cls, kwargs)

\* line 140, self.validators = validators or self.default_validators[:]: the
\* attribute is bound to the list passed when that list is not empty, and to
\* a fresh copy of the class default otherwise
BoundToCallersList(passed, heap) == passed /\ heap.caller # <<>>

\* cls(validators=<the caller's list>, **kwargs) when passed, cls(**kwargs)
\* otherwise: the field, and the lists after the appends of the constructor
ConstructOnHeap(cls, kwargs, passed, heap) ==
    LET given == IF BoundToCallersList(passed, heap) THEN heap.caller
                 ELSE heap.default_validators
        r == ConstructWithValidators(cls, kwargs @@ [validators |-> given])
        shared == BoundToCallersList(passed, heap)
    IN  [self |-> [cls |-> cls, kwargs |-> kwargs, passed |-> passed,
                   ref |-> IF shared THEN "caller" ELSE "own",
                   own |-> IF shared THEN <<>> ELSE r.self.validators],
         heap |-> IF shared THEN [heap EXCEPT !.caller = r.self.validators] ELSE heap]

\* field.validators
ValidatorsOf(fld, heap) == IF fld.ref = "caller" THEN heap.caller ELSE fld.own

MaxFields == 2
CallerLists == {<<>>, <<Validator("a")>>, <<Validator("a"), Validator("ok")>>}
ConvenienceArgs(cls) ==
    IF cls = "IntegerField" THEN {<<>>, [max_value |-> 1], [min_value |-> 0]} ELSE {<<>>}
HeapClasses == {"IntegerField", "CharField", "EmailField"}

InitHeap ==
    /\ field = <<>>
    /\ \E list \in CallerLists :
            container = [caller |-> list, original |-> list, default_validators |-> <<>>]
    /\ last = NoCall
    /\ calls = <<>>
    /\ serializer_field = NoneV
    /\ instance = NoInstance

ConstructSharing(cls, kwargs, passed) ==
    /\ Len(field) < MaxFields
    /\ LET r == ConstructOnHeap(cls, kwargs, passed, container)
       IN  /\ field' = Append(field, r.self)
           /\ container' = r.heap
           /\ last' = Call("__init__", cls, kwargs, "-", "-", Return(NoneV))
    /\ UNCHANGED <<calls, serializer_field, instance>>

NextHeap ==
    \E cls \in HeapClasses, passed \in BOOLEAN :
        \E kwargs \in ConvenienceArgs(cls) : ConstructSharing(cls, kwargs, passed)

SpecHeap == InitHeap /\ [][NextHeap]_vars

\* the validators passed to the field followed by the ones derived from its
\* own convenience parameters
OwnValidators(fld) ==
    (IF fld.passed THEN container.original ELSE <<>>)
        \o ConstructWithValidators(fld.cls, fld.kwargs).self.validators

\* C26: after any sequence of constructions the caller's list and the class
\* default list are what they were, and each field's validators are the ones
\* passed to it followed by the ones derived from its own parameters.
C26_ValidatorListsNotShared ==
    /\ container.caller = container.original
    /\ container.default_validators = <<>>
    /\ \A i \in DOMAIN field : ValidatorsOf(field[i], container) = OwnValidators(field[i])

-----------------------------------------------------------------------------
(* Choice values with the same string form *)

ConfiguredChoices(fld) == {fld.choices[i].key : i \in DOMAIN fld.choices}

\* C27: for a single-choice field built from any list of choice values, every
\* configured choice value v is preserved, to_internal_value(v) = v and
\* to_representation(v) = v, and every value to_internal_value returns is a
\* configured choice value: no choice is shadowed by another with the same
\* string form.
C27_EveryChoiceReachable ==
    (field.cls = "ChoiceField" /\ last.op \in {"to_internal_value", "to_representation"}) =>
        /\ last.data \in ConfiguredChoices(field) => last.out = Return(last.data)
        /\ (last.op = "to_internal_value" /\ last.out.kind = "return") =>
                last.out.value \in ConfiguredChoices(field)

-----------------------------------------------------------------------------
(* DocumentingTemplateRenderer.render (djangorestframework/renderers.py).  *)
(* instance is the view, container its response, and last the call of      *)
(* render: the line it has reached (pc), the status code the response had  *)
(* when it was called (original), the context it has built and the output  *)
(* of the template (ret), which documents the response found in its        *)
(* context.                                                                *)

DocumentingRenderers == {"DocumentingHTMLRenderer", "DocumentingPlainTextRenderer"}
TextRenderers == {"JSONRenderer"}

\* DocumentingTemplateRenderer._get_content(self, view, request, obj, media_type)
_get_content(view) ==
    LET renderers == SelectSeq(view.renderer_classes, LAMBDA r : r \notin DocumentingRenderers)
    IN  IF renderers = <<>> THEN "[No renderers were found]"
        ELSE IF Head(renderers) \notin TextRenderers THEN "[%d bytes of binary content]"
        ELSE "content of " \o Head(renderers)

\* DocumentingTemplateRenderer._get_form_instance(self, view, method)
_get_form_instance(view) == IF ~view.has_get_serializer THEN NoneV ELSE "OnTheFlyForm"

\* template.render(context): the page shows the content and the status code
\* of the response in the context
template_render(context, response) ==
    [content |-> context.content, put_form |-> context.put_form,
     status_code |-> response.status_code]

\* the response code set to 200 whatever it was
MungeResponseCode_always(status_code) == 200

\* Munge DELETE Response code to allow us to return content
MungeResponseCode(status_code) == IF status_code = 204 THEN 200 ELSE status_code

MaxRenderers == 2
RendererClasses == {"JSONRenderer", "ImageRenderer", "DocumentingHTMLRenderer"}
Views ==
    {[kind |-> "view", renderer_classes |-> classes, has_get_serializer |-> s] :
        classes \in UNION {[1..n -> RendererClasses] : n \in 0..MaxRenderers},
        s \in BOOLEAN}
StatusCodes == {200, 201, 204, 400, 404}
NoContext == [content |-> "-", put_form |-> "-"]
NoOutput == [content |-> "-", put_form |-> "-", status_code |-> 0]

InitRender ==
    /\ instance \in Views
    /\ \E status_code \in StatusCodes :
            /\ container = [kind |-> "response", status_code |-> status_code]
            /\ last = [pc |-> "called", original |-> status_code, context |-> NoContext,
                       ret |-> NoOutput]
    /\ field = NoField
    /\ calls = <<>>
    /\ serializer_field = NoneV

\* lines 321-349: the content, the forms and the context
BuildContext ==
    /\ last.pc = "called"
    /\ last' = [last EXCEPT !.pc = "context",
                            !.context = [content |-> _get_content(instance),
                                         put_form |-> _get_form_instance(instance)]]
    /\ UNCHANGED <<field, calls, serializer_field, instance, container>>

\* line 351: ret = template.render(context)
RenderTemplate ==
    /\ last.pc = "context"
    /\ last' = [last EXCEPT !.pc = "rendered", !.ret = template_render(last.context, container)]
    /\ UNCHANGED <<field, calls, serializer_field, instance, container>>

\* lines 353-358: the status code is munged and ret returned
MungeAndReturn ==
    /\ last.pc = "rendered"
    /\ container' = [container EXCEPT !.status_code = MungeResponseCode(@)]
    /\ last' = [last EXCEPT !.pc = "returned"]
    /\ UNCHANGED <<field, calls, serializer_field, instance>>

NextRender == BuildContext \/ RenderTemplate \/ MungeAndReturn

SpecRender == InitRender /\ [][NextRender]_vars

\* C28: render produces its output while the response still carries its
\* original status code, and changes the status only after the template has
\* been rendered: when render returns, a status that was 204 is 200 and every
\* other status code is unchanged.
C28_StatusMungedAfterRender ==
    /\ last.pc # "returned" => container.status_code = last.original
    /\ last.pc \in {"rendered", "returned"} => last.ret.status_code = last.original
    /\ last.pc = "returned" =>
            container.status_code = IF last.original = 204 THEN 200 ELSE last.original

C28_Witness ==
    /\ last.pc = "returned"
    /\ last.original = 204
    /\ last.ret.status_code = 204
    /\ container.status_code = 200

====
